---- MODULE Spec2Model ----
(***************************************************************************)
(* Model of the tool-calling orchestration loop of                         *)
(* backend/ai_generator.py (class AIGenerator).                            *)
(*                                                                         *)
(* One run of generate_response is modelled.  The generation backend       *)
(* (client.messages.create) and the tool manager (execute_tool) are        *)
(* external: every response and every tool outcome is chosen               *)
(* nondeterministically, and either of them may raise.                     *)
(***************************************************************************)
EXTENDS Integers, Sequences, FiniteSets, TLC

(***************************************************************************)
(* Bounds of the model and program constants                               *)
(***************************************************************************)
\* Largest number of content blocks in one response of the backend.
MaxBlocks == 2

\* AIGenerator.MAX_TOOL_ROUNDS
MAX_TOOL_ROUNDS == 2

\* Largest number of requests served one after another.
MaxQueries == 2

\* Largest number of matches the vector store returns for one search.
MaxMatches == 2

\* Largest number of requests served one after another when only the
\* sessions are followed.
MaxSessionQueries == 4

\* Largest number of exchanges a session keeps (its list of turns is
\* bounded).
MaxHistory == 2

\* The sessions the client creates itself (test_session_isolation).
CreatedSessions == 2

(***************************************************************************)
(* Values                                                                  *)
(***************************************************************************)
\* Python's None, and the marker of a key that a dict does not hold.
NoneValue == "<None>"
Absent == "<absent>"
EmptyString == ""

\* The static system prompt and the configured model identifier.
SYSTEM_PROMPT == "SYSTEM_PROMPT"
ModelId == "model-id"

\* The user's question (one fixed opaque string).
Query == "query"

\* The tools argument: None, an empty list, or a non-empty list of schemas.
ToolsArgs == {NoneValue, "[]", "[defs]"}
\* The conversation_history argument: None, an empty string, or some text.
HistoryArgs == {NoneValue, EmptyString, "history"}

\* Python truthiness of the tools / conversation_history argument.
Truthy(v) == v \notin {NoneValue, EmptyString, "[]"}

StopReasons == {"tool_use", "end_turn", "max_tokens"}
BlockTypes == {"text", "tool_use"}

\* Results a tool execution can return, and the mark of one that raised.
ToolOutputs == {"result", "error string"}
Raised == "<raised>"

\* The names the tool manager has a tool registered under.
RegisteredTools == {"search_course_content", "get_course_outline"}

\* ToolManager.execute_tool: what the call execute_tool(name, **input) can do.
\* A name that is not registered yields an error string, never an
\* exception; otherwise the call is handed to the tool, which returns a
\* string or raises.
NotFoundMessage(name) == "Tool '" \o name \o "' not found"
ExecuteToolOutcomes(name) ==
    IF name \notin RegisteredTools
    THEN {NotFoundMessage(name)}
    ELSE ToolOutputs \cup {Raised}

\* Texts, ids, names and inputs of the blocks the backend produces: the block
\* at position p of the n-th response carries the p-th entry of the n-th row,
\* so ids are unique within (and across) responses and texts are distinct.
BlockTexts ==
    << <<"t11", "t12", "t13", "t14">>,
       <<"t21", "t22", "t23", "t24">>,
       <<"t31", "t32", "t33", "t34">>,
       <<"t41", "t42", "t43", "t44">> >>
BlockIds ==
    << <<"id11", "id12", "id13", "id14">>,
       <<"id21", "id22", "id23", "id24">>,
       <<"id31", "id32", "id33", "id34">>,
       <<"id41", "id42", "id43", "id44">> >>
BlockInputs ==
    << <<"in11", "in12", "in13", "in14">>,
       <<"in21", "in22", "in23", "in24">>,
       <<"in31", "in32", "in33", "in34">>,
       <<"in41", "in42", "in43", "in44">> >>
\* The names the backend asks for: the two registered tools and a name that
\* no tool is registered under.
BlockNames ==
    << <<"search_course_content", "get_course_outline",
         "nonexistent_tool", "search_course_content">>,
       <<"nonexistent_tool", "search_course_content",
         "get_course_outline", "nonexistent_tool">>,
       <<"get_course_outline", "nonexistent_tool",
         "search_course_content", "get_course_outline">>,
       <<"search_course_content", "get_course_outline",
         "nonexistent_tool", "search_course_content">> >>

\* A content block of the n-th response, at position p, of type t.
Block(n, p, t) ==
    IF t = "text"
    THEN [type |-> "text", text |-> BlockTexts[n][p]]
    ELSE [type |-> "tool_use", id |-> BlockIds[n][p],
          name |-> BlockNames[n][p], input |-> BlockInputs[n][p]]

\* The sequences of block types of a response: length 0..MaxBlocks.
Shapes == UNION {[1..k -> BlockTypes] : k \in 0..MaxBlocks}

\* The responses the backend can give to the n-th generation call.
Responses(n) ==
    {[stop_reason |-> s,
      content |-> [p \in 1..Len(sh) |-> Block(n, p, sh[p])]] :
        s \in StopReasons, sh \in Shapes}

NoResponse == [stop_reason |-> Absent, content |-> <<>>]

(***************************************************************************)
(* State                                                                   *)
(***************************************************************************)
VARIABLES
    tools,                 \* argument tools of generate_response
    tool_manager,          \* TRUE iff a tool manager was supplied
    conversation_history,  \* argument conversation_history
    pc,                    \* "start", "create", "loop", "exec", "next",
                           \* "done"
    base_messages,         \* api_params["messages"] of generate_response
    messages,              \* the loop's own copy of the message list
    current_round,         \* the loop's round counter
    response,              \* the latest response of the backend
    tool_results,          \* _execute_tools: the results collected so far
    block_index,           \* _execute_tools: next content block to visit
    calls,                 \* log: the keyword arguments of every create call
    responses,             \* log: every response the backend returned
    executed,              \* log: every execute_tool invocation, in order
    status,                \* "running", "returned", "raised"
    result                 \* returned value, or the name of the exception

vars == <<tools, tool_manager, conversation_history, pc, base_messages,
          messages, current_round, response, tool_results, block_index,
          calls, responses, executed, status, result>>

inputs == <<tools, tool_manager, conversation_history>>

(***************************************************************************)
(* State of the layers around the orchestrator: the search tool's source   *)
(* slot, the sessions, and for every request its position in the handler   *)
(* and in the facade's query, with what it has read and been answered.     *)
(***************************************************************************)
VARIABLES
    last_sources,     \* CourseSearchTool.last_sources, the single slot
    last_search,      \* log: the latest search execution since the last reset
    session_counter,  \* number of sessions created so far
    qpc,              \* per request: "idle", "generate", "read", "reset",
                      \*              "record", "done"
    sessions,         \* SessionManager.sessions: the messages of each session
    qhistory,         \* per request: the history query hands to the generator
    qrequested,       \* per request: log, request.session_id
    qsession,         \* per request: session_id the query runs with
    qround,           \* per request: tool rounds begun by its orchestration
    qblock,           \* per request: tool calls made in the current round
    qsources,         \* per request: the local variable sources of query
    qanswer,          \* per request: the local variable response of query
    returned,         \* per request: log, what query returned to its caller
    clears,           \* log of POST /api/session/clear: per session id the
                      \* last request served before it was cleared, and
                      \* the latest response of the handler
    qcaller,          \* per request: who called query, the handler or not
    qresets,          \* per request: log, number of reset_sources calls
    qcreated,         \* per request: log, number of create_session calls
    overlapped,       \* per request: log, ran while another request ran
    qraised,          \* per request: log, the exception that left query
    http              \* per request: log, the responses sent to the client

facade_vars == <<last_sources, last_search, session_counter, qpc, qsession,
                 qround, qblock, qsources, qresets, qcreated,
                 overlapped, qraised, qrequested, sessions, qhistory,
                 qanswer, returned, clears, qcaller, http>>

(***************************************************************************)
(* Two runs of generate_response on one AIGenerator instance.  The locals  *)
(* of a run live in a frame; the position of control belongs to the run.   *)
(***************************************************************************)
VARIABLES
    frame,        \* per frame: api_params, messages, current_round,
                  \*            response, tool_results, block_index
    run_pc,       \* per run: "start", "create", "loop", "exec", "next",
                  \*          "done"
    run_status,   \* per run: "running", "returned", "raised"
    run_result,   \* per run: returned value, or the name of the exception
    sent,         \* per run: log, the keyword arguments of its create calls
    delivered,    \* per run: log, the responses the backend gave it
    outputs       \* per run: log, the strings its tool executions returned

run_vars == <<frame, run_pc, run_status, run_result, sent, delivered,
              outputs>>

all_vars == <<vars, facade_vars, run_vars>>

Runs == {1, 2}

NoFrame ==
    [api_params |-> <<>>, messages |-> <<>>, current_round |-> 0,
     response |-> NoResponse, tool_results |-> <<>>, block_index |-> 1]

RunsIdle ==
    /\ frame = [c \in Runs |-> NoFrame]
    /\ run_pc = [r \in Runs |-> "start"]
    /\ run_status = [r \in Runs |-> "running"]
    /\ run_result = [r \in Runs |-> NoneValue]
    /\ sent = [r \in Runs |-> <<>>]
    /\ delivered = [r \in Runs |-> <<>>]
    /\ outputs = [r \in Runs |-> <<>>]

MaxRequests ==
    IF MaxQueries > MaxSessionQueries THEN MaxQueries ELSE MaxSessionQueries

Requests == 1..MaxRequests

\* SessionManager.create_session: session_<counter>
NewSessionId(counter) == "session_" \o ToString(counter)

\* The session ids a request can name or be given.
SessionIds ==
    {"existing-session-456", "session-to-clear"}
        \cup {NewSessionId(k) : k \in Requests}

NoSession == [exists |-> FALSE, messages |-> <<>>]

\* get_conversation_history returning None.
NoHistory == [none |-> TRUE, lines |-> <<>>]

\* query has not returned.
NoReturn == [made |-> FALSE, answer |-> NoneValue, sources |-> <<>>]

\* clear_session has not been called for the session id.
NoClear == [upto |-> [id \in SessionIds |-> 0], response |-> NoneValue]

NoSearch == [query |-> 0, error |-> NoneValue, matches |-> 0,
             result |-> NoneValue, before |-> <<>>]

FacadeIdle ==
    /\ last_sources = <<>>
    /\ last_search = NoSearch
    /\ session_counter = 0
    /\ qpc = [q \in Requests |-> "idle"]
    /\ qsession = [q \in Requests |-> NoneValue]
    /\ qround = [q \in Requests |-> 0]
    /\ qblock = [q \in Requests |-> 0]
    /\ qsources = [q \in Requests |-> <<>>]
    /\ qresets = [q \in Requests |-> 0]
    /\ qcreated = [q \in Requests |-> 0]
    /\ overlapped = [q \in Requests |-> FALSE]
    /\ qraised = [q \in Requests |-> NoneValue]
    /\ qrequested = [q \in Requests |-> NoneValue]
    /\ sessions = [id \in SessionIds |-> NoSession]
    /\ qhistory = [q \in Requests |-> NoHistory]
    /\ qanswer = [q \in Requests |-> NoneValue]
    /\ returned = [q \in Requests |-> NoReturn]
    /\ clears = NoClear
    /\ qcaller = [q \in Requests |-> NoneValue]
    /\ http = [q \in Requests |-> <<>>]

(***************************************************************************)
(* Pure pieces of the code                                                 *)
(***************************************************************************)
\* AIGenerator.__init__: self.base_params
base_params == [model |-> ModelId, temperature |-> 0, max_tokens |-> 800]

\* Mutant of SystemContent: the conversation history is left out.
SystemContent_NoHistory(history) == <<SYSTEM_PROMPT>>

\* generate_response: system_content
SystemContent(history) ==
    IF Truthy(history)
    THEN <<SYSTEM_PROMPT, "\n\nPrevious conversation:\n", history>>
    ELSE <<SYSTEM_PROMPT>>

\* generate_response: api_params of the first call.  A key the dict does not
\* hold has the value Absent.
\* Mutant of ApiParams: tool_choice is sent whether or not tools were given.
ApiParams_ToolChoiceAlways(query, tls, history) ==
    [model |-> base_params.model,
     temperature |-> base_params.temperature,
     max_tokens |-> base_params.max_tokens,
     messages |-> <<[role |-> "user", content |-> query]>>,
     system |-> SystemContent(history),
     tools |-> IF Truthy(tls) THEN tls ELSE Absent,
     tool_choice |-> "auto"]

ApiParams(query, tls, history) ==
    [model |-> base_params.model,
     temperature |-> base_params.temperature,
     max_tokens |-> base_params.max_tokens,
     messages |-> <<[role |-> "user", content |-> query]>>,
     system |-> SystemContent(history),
     tools |-> IF Truthy(tls) THEN tls ELSE Absent,
     tool_choice |-> IF Truthy(tls) THEN "auto" ELSE Absent]

FirstApiParams(tls, history) == ApiParams(Query, tls, history)

\* base_params.get("tools") in the loop: None when the key is missing.
DictGetTools(params) ==
    IF params.tools = Absent THEN NoneValue ELSE params.tools

\* Mutant of WithinToolLimit: an off-by-one that still offers tools on the
\* call made once the limit is reached.
WithinToolLimit_OffByOne(round) == round <= MAX_TOOL_ROUNDS

\* The loop's test "current_round < self.MAX_TOOL_ROUNDS" for including tools
\* in the next call.
WithinToolLimit(round) == round < MAX_TOOL_ROUNDS

\* Mutant of NextApiParams: the calls of the loop are made with other
\* sampling settings than the first call.
NextApiParams_OtherSettings(msgs, round, base) ==
    [model |-> base_params.model,
     temperature |-> base_params.temperature + 1,
     max_tokens |-> base_params.max_tokens * 2,
     messages |-> msgs,
     system |-> base.system,
     tools |-> IF WithinToolLimit(round) THEN DictGetTools(base) ELSE Absent,
     tool_choice |-> IF WithinToolLimit(round) THEN "auto" ELSE Absent]

\* _execute_tool_calling_loop: api_params of the next call.
NextApiParams(msgs, round, base) ==
    IF WithinToolLimit(round)
    THEN [model |-> base_params.model,
          temperature |-> base_params.temperature,
          max_tokens |-> base_params.max_tokens,
          messages |-> msgs,
          system |-> base.system,
          tools |-> DictGetTools(base),
          tool_choice |-> "auto"]
    ELSE [model |-> base_params.model,
          temperature |-> base_params.temperature,
          max_tokens |-> base_params.max_tokens,
          messages |-> msgs,
          system |-> base.system,
          tools |-> Absent,
          tool_choice |-> Absent]

\* Mutant of LoopCondition: an off-by-one that allows one more round.
LoopCondition_OffByOne(round) == round <= MAX_TOOL_ROUNDS

\* The while condition of _execute_tool_calling_loop.
LoopCondition(round) == round < MAX_TOOL_ROUNDS

\* Mutant of WantsTools: the termination test never ends the loop early.
WantsTools_Always(resp) == TRUE

\* The loop's termination test on the latest response.
WantsTools(resp) == resp.stop_reason = "tool_use"

\* generate_response: the test that enters the tool-calling loop.
EntersLoop(resp, manager) == resp.stop_reason = "tool_use" /\ manager

\* Positions of the text blocks of a content list.
TextPositions(content) ==
    {p \in 1..Len(content) : content[p].type = "text"}

Min(S) == CHOOSE x \in S : \A y \in S : x <= y

\* _extract_text_from_response
ExtractText(content) ==
    IF TextPositions(content) = {}
    THEN EmptyString
    ELSE content[Min(TextPositions(content))].text

\* Positions, from position i on, of the tool_use blocks of a content list.
ToolUsePositionsFrom(content, i) ==
    {p \in i..Len(content) : content[p].type = "tool_use"}

Max(S) == CHOOSE x \in S : \A y \in S : x >= y

\* Mutant of NextToolUse: the blocks are visited from the last one.
NextToolUse_Last(content, i) == Max(ToolUsePositionsFrom(content, i))

\* _execute_tools: the block the for loop executes next.
NextToolUse(content, i) == Min(ToolUsePositionsFrom(content, i))

\* Mutant of ToolResult: the result is labelled with the tool's name instead
\* of the id of the block that requested it.
ToolResult_WrongId(block, output) ==
    [type |-> "tool_result", tool_use_id |-> block.name, content |-> output]

\* _execute_tools: the tool_result dictionary of one executed block.
ToolResult(block, output) ==
    [type |-> "tool_result", tool_use_id |-> block.id, content |-> output]

\* Mutant of AssistantMessage: only the tool_use blocks of the response are
\* put into the assistant message, the model's narration is dropped.
AssistantMessage_ToolUsesOnly(resp) ==
    [role |-> "assistant",
     content |-> SelectSeq(resp.content, LAMBDA b : b.type = "tool_use")]

\* _execute_tool_calling_loop: the assistant message of a round.
AssistantMessage(resp) == [role |-> "assistant", content |-> resp.content]

\* Mutant of WithToolResults: the results of the round are dropped instead
\* of being appended to the history.
WithToolResults_Never(msgs, results) == msgs

\* Mutant of WithToolResults: the user message is appended even when no tool
\* was executed.
WithToolResults_Always(msgs, results) ==
    Append(msgs, [role |-> "user", content |-> results])

\* _execute_tool_calling_loop: "if tool_results: messages.append(...)".
WithToolResults(msgs, results) ==
    IF results /= <<>>
    THEN Append(msgs, [role |-> "user", content |-> results])
    ELSE msgs

\* The keyword arguments of a create call, with the round counter at the time.
CallRecord(params, round) == [params |-> params, round |-> round]

(***************************************************************************)
(* Initial states: the arguments of generate_response                      *)
(***************************************************************************)
Init ==
    /\ tools \in ToolsArgs
    /\ tool_manager \in BOOLEAN
    /\ conversation_history \in HistoryArgs
    /\ pc = "start"
    /\ base_messages = <<>>
    /\ messages = <<>>
    /\ current_round = 0
    /\ response = NoResponse
    /\ tool_results = <<>>
    /\ block_index = 1
    /\ calls = <<>>
    /\ responses = <<>>
    /\ executed = <<>>
    /\ status = "running"
    /\ result = NoneValue
    /\ FacadeIdle
    /\ RunsIdle

(***************************************************************************)
(* Actions                                                                 *)
(***************************************************************************)
Return(value) ==
    /\ pc' = "done"
    /\ status' = "returned"
    /\ result' = value

Raise(exception) ==
    /\ pc' = "done"
    /\ status' = "raised"
    /\ result' = exception

\* Mutant of PropagateAPIError: the failure of the backend is caught and an
\* empty answer is returned.
SwallowAPIError == Return(EmptyString)

\* client.messages.create raised.  No caller in the class has a try block,
\* so the exception leaves the run.
PropagateAPIError == Raise("APIError")

\* "return response.content[0].text": IndexError on an empty content list;
\* on a block that is not a text block the attribute is either missing
\* (AttributeError, the SDK's ToolUseBlock) or None (a block object that
\* defines text for every type), depending on the block's class.
ReturnFirstBlockText(resp) ==
    IF resp.content = <<>>
    THEN Raise("IndexError")
    ELSE IF resp.content[1].type = "text"
         THEN Return(resp.content[1].text)
         ELSE \/ Raise("AttributeError")
              \/ Return(NoneValue)

\* Mutant of MessagesObject: the loop works on the caller's list itself
\* ("messages = base_params['messages']", without the copy).
MessagesObject_Same == "base_params"

\* "messages = base_params['messages'].copy()": the list object the loop's
\* local messages names is a new list, not the list held by base_params.
MessagesObject == "copy"

\* The contents of base_params["messages"] once the loop has appended to its
\* local list: an append reaches the caller's list only if both names
\* denote the same list object.
BaseMessagesAfter(base, own) ==
    IF MessagesObject = "base_params" THEN own ELSE base

\* generate_response up to its first create call: the keyword arguments are
\* built and handed to client.messages.create, where the run waits.
GenerateResponse ==
    /\ pc = "start"
    /\ LET params == FirstApiParams(tools, conversation_history) IN
       /\ base_messages' = params.messages
       /\ calls' = Append(calls, CallRecord(params, 0))
    /\ pc' = "create"
    /\ UNCHANGED <<inputs, facade_vars, run_vars, messages, current_round,
                   response, responses, tool_results, block_index, executed,
                   status, result>>

\* The first create call raises or returns: generate_response up to its
\* return or its entry into the loop, the first lines of
\* _execute_tool_calling_loop included.
FirstCallReturns ==
    /\ pc = "create"
    /\ \/ /\ PropagateAPIError
          /\ UNCHANGED <<messages, current_round, response, responses>>
       \/ \E r \in Responses(1) :
             /\ response' = r
             /\ responses' = Append(responses, r)
             /\ IF EntersLoop(r, tool_manager)
                THEN /\ messages' = base_messages
                     /\ current_round' = 0
                     /\ pc' = "loop"
                     /\ UNCHANGED <<status, result>>
                ELSE /\ ReturnFirstBlockText(r)
                     /\ UNCHANGED <<messages, current_round>>
    /\ UNCHANGED <<inputs, facade_vars, run_vars, base_messages, calls,
                   tool_results, block_index, executed>>

\* Top of the while loop: the loop condition, the termination test and the
\* append of the assistant message; _execute_tools starts.
LoopHead ==
    /\ pc = "loop"
    /\ IF LoopCondition(current_round) /\ WantsTools(response)
       THEN /\ messages' = Append(messages, AssistantMessage(response))
            /\ tool_results' = <<>>
            /\ block_index' = 1
            /\ pc' = "exec"
            /\ UNCHANGED <<status, result>>
       ELSE /\ Return(ExtractText(response.content))
            /\ UNCHANGED <<messages, tool_results, block_index>>
    /\ base_messages' = BaseMessagesAfter(base_messages, messages')
    /\ UNCHANGED <<inputs, facade_vars, run_vars,
                   current_round, response, calls, responses, executed>>

\* The log entry of one execute_tool invocation: its arguments, the number
\* of create calls made before it, and its outcome (an output, or Raised).
Execution(block, outcome) ==
    [name |-> block.name, input |-> block.input, call |-> Len(calls),
     outcome |-> outcome]

\* Mutant of CollectToolResult: a result that reports a missing tool is
\* treated as a failure of the round.
CollectToolResult_AbortOnNotFound(p, output) ==
    IF output = NotFoundMessage(response.content[p].name)
    THEN /\ pc' = "done"
         /\ status' = "raised"
         /\ result' = "ToolError"
         /\ UNCHANGED <<tool_results, block_index>>
    ELSE /\ tool_results' = Append(tool_results,
                                   ToolResult(response.content[p], output))
         /\ block_index' = p + 1
         /\ UNCHANGED <<pc, status, result>>

\* _execute_tools: execute_tool returned; the result is collected and the
\* for loop goes on behind the block at position p.
CollectToolResult(p, output) ==
    /\ tool_results' = Append(tool_results,
                              ToolResult(response.content[p], output))
    /\ block_index' = p + 1
    /\ UNCHANGED <<pc, status, result>>

\* Mutant of PropagateToolError: the exception is caught and handed to the
\* model as an error string.
SwallowToolError(p) == CollectToolResult(p, "error string")

\* _execute_tools: execute_tool raised while executing the block at position
\* p.  Neither _execute_tools nor the loop nor generate_response has a try
\* block, so the exception leaves the run.
PropagateToolError(p) ==
    /\ Raise("ToolError")
    /\ UNCHANGED <<tool_results, block_index>>

\* _execute_tools: one iteration of the for loop that executes a tool.
ExecuteTool ==
    /\ pc = "exec"
    /\ ToolUsePositionsFrom(response.content, block_index) /= {}
    /\ LET p == NextToolUse(response.content, block_index)
           block == response.content[p] IN
       \/ /\ Raised \in ExecuteToolOutcomes(block.name)
          /\ executed' = Append(executed, Execution(block, Raised))
          /\ PropagateToolError(p)
       \/ \E output \in ExecuteToolOutcomes(block.name) \ {Raised} :
             /\ executed' = Append(executed, Execution(block, output))
             /\ CollectToolResult(p, output)
    /\ UNCHANGED <<inputs, facade_vars, run_vars, base_messages, messages,
                   current_round, response, calls, responses>>

\* The rest of the loop body once _execute_tools has returned: the append of
\* the tool results, the increment, and the next create call being issued;
\* the run waits in client.messages.create.
FinishRound ==
    /\ pc = "exec"
    /\ ToolUsePositionsFrom(response.content, block_index) = {}
    /\ LET msgs == WithToolResults(messages, tool_results)
           round == current_round + 1
           base == FirstApiParams(tools, conversation_history)
           params == NextApiParams(msgs, round, base) IN
       /\ messages' = msgs
       /\ current_round' = round
       /\ calls' = Append(calls, CallRecord(params, round))
    /\ pc' = "next"
    /\ base_messages' = BaseMessagesAfter(base_messages, messages')
    /\ UNCHANGED <<inputs, facade_vars, run_vars, response, responses,
                   tool_results, block_index, executed, status, result>>

\* The create call of the loop raises or returns; with a response the run
\* is back at the top of the while loop.
NextCallReturns ==
    /\ pc = "next"
    /\ \/ /\ PropagateAPIError
          /\ UNCHANGED <<response, responses>>
       \/ \E r \in Responses(Len(calls)) :
             /\ response' = r
             /\ responses' = Append(responses, r)
             /\ pc' = "loop"
             /\ UNCHANGED <<status, result>>
    /\ UNCHANGED <<inputs, facade_vars, run_vars, base_messages, messages,
                   current_round, calls, tool_results, block_index,
                   executed>>

Next ==
    \/ GenerateResponse
    \/ FirstCallReturns
    \/ LoopHead
    \/ ExecuteTool
    \/ FinishRound
    \/ NextCallReturns

Spec == Init /\ [][Next]_all_vars

\* The run under the assumption that every generation call and every tool
\* execution eventually returns or raises: the one thread running
\* generate_response takes its next step whenever it has one.
FairSpec == Spec /\ WF_all_vars(Next)

(***************************************************************************)
(* Vocabulary of the properties (defined apart from the model of the code) *)
(***************************************************************************)
Finished == status /= "running"
Returned == status = "returned"
NumCalls == Len(calls)
NumResponses == Len(responses)

\* The tool_use blocks of a content list, in order.
IsToolUseBlock(b) == b.type = "tool_use"
ToolUses(content) == SelectSeq(content, IsToolUseBlock)

\* The first j responses exist and all have stop_reason tool_use.
FirstAllToolUse(j) ==
    /\ NumResponses >= j
    /\ \A i \in 1..j : responses[i].stop_reason = "tool_use"

\* The first text block of a content list, scanning in order; the empty
\* string when there is none.
RECURSIVE FirstText(_)
FirstText(content) ==
    IF content = <<>> THEN ""
    ELSE IF Head(content).type = "text" THEN Head(content).text
    ELSE FirstText(Tail(content))

\* The executions made for the n-th response, in order.
ExecsOf(n) == SelectSeq(executed, LAMBDA e : e.call = n)

\* The message history passed to the i-th generation call.
History(i) == calls[i].params.messages

IsPrefix(s, t) == Len(s) <= Len(t) /\ SubSeq(t, 1, Len(s)) = s

HasText(content) == \E p \in 1..Len(content) : content[p].type = "text"

\* The i-th call carries the tool schemas given to generate_response.
CarriesSchemas(i) == calls[i].params.tools = "[defs]"
\* The i-th call has no tools field.
OmitsTools(i) == calls[i].params.tools = Absent
\* The i-th call has no tool_choice field.
OmitsToolChoice(i) == calls[i].params.tool_choice = Absent

(***************************************************************************)
(* C1                                                                      *)
(***************************************************************************)
\* C1 as stated: a run with a tool manager makes at most MAX_TOOL_ROUNDS + 1
\* generation calls, and once it has ended after MAX_TOOL_ROUNDS first
\* responses that all had stop_reason tool_use it has made exactly
\* MAX_TOOL_ROUNDS + 1 calls, with the tool schemas on calls
\* 1..MAX_TOOL_ROUNDS and none on the last.
C1_AsStated ==
    tool_manager =>
        /\ NumCalls <= MAX_TOOL_ROUNDS + 1
        /\ (Finished /\ FirstAllToolUse(MAX_TOOL_ROUNDS)) =>
              /\ NumCalls = MAX_TOOL_ROUNDS + 1
              /\ \A i \in 1..MAX_TOOL_ROUNDS : CarriesSchemas(i)
              /\ OmitsTools(MAX_TOOL_ROUNDS + 1)

\* C1 (amended): a run with a tool manager makes at most MAX_TOOL_ROUNDS + 1
\* generation calls; a run that returns after MAX_TOOL_ROUNDS first responses
\* that all had stop_reason tool_use has made exactly MAX_TOOL_ROUNDS + 1
\* calls, the last of them without tools, and calls 1..MAX_TOOL_ROUNDS carry
\* the tool schemas if a non-empty tool list was given to generate_response.
C1_CallCount ==
    tool_manager =>
        /\ NumCalls <= MAX_TOOL_ROUNDS + 1
        /\ (Returned /\ FirstAllToolUse(MAX_TOOL_ROUNDS)) =>
              /\ NumCalls = MAX_TOOL_ROUNDS + 1
              /\ Truthy(tools) =>
                    \A i \in 1..MAX_TOOL_ROUNDS : CarriesSchemas(i)
              /\ OmitsTools(MAX_TOOL_ROUNDS + 1)

C1_Witness ==
    /\ tool_manager
    /\ Truthy(tools)
    /\ Returned
    /\ FirstAllToolUse(MAX_TOOL_ROUNDS)
    /\ NumCalls = MAX_TOOL_ROUNDS + 1
    /\ Len(executed) >= MAX_TOOL_ROUNDS

(***************************************************************************)
(* C2                                                                      *)
(***************************************************************************)
\* C2 as stated: every generation call issued while the round counter is
\* below MAX_TOOL_ROUNDS carries the tool schemas and tool_choice auto, and
\* the call issued when the counter equals MAX_TOOL_ROUNDS carries neither a
\* tools nor a tool_choice field.
C2_AsStated ==
    \A i \in 1..NumCalls :
        /\ calls[i].round < MAX_TOOL_ROUNDS =>
              /\ CarriesSchemas(i)
              /\ calls[i].params.tool_choice = "auto"
        /\ calls[i].round = MAX_TOOL_ROUNDS =>
              /\ OmitsTools(i)
              /\ OmitsToolChoice(i)

\* C2 (amended): when a non-empty tool list was given to generate_response,
\* every generation call issued while the round counter is below
\* MAX_TOOL_ROUNDS carries the tool schemas and tool_choice auto; in every
\* run the call issued when the counter equals MAX_TOOL_ROUNDS carries
\* neither a tools nor a tool_choice field.
C2_ToolsByRound ==
    \A i \in 1..NumCalls :
        /\ (Truthy(tools) /\ calls[i].round < MAX_TOOL_ROUNDS) =>
              /\ CarriesSchemas(i)
              /\ calls[i].params.tool_choice = "auto"
        /\ calls[i].round = MAX_TOOL_ROUNDS =>
              /\ OmitsTools(i)
              /\ OmitsToolChoice(i)

C2_Witness ==
    /\ Truthy(tools)
    /\ NumCalls = MAX_TOOL_ROUNDS + 1
    /\ calls[NumCalls].round = MAX_TOOL_ROUNDS
    /\ calls[NumCalls - 1].round < MAX_TOOL_ROUNDS
    /\ CarriesSchemas(NumCalls - 1)
    /\ OmitsTools(NumCalls)

(***************************************************************************)
(* C3                                                                      *)
(***************************************************************************)
\* C3: when the first response has a stop_reason other than tool_use and
\* holds a text block, the run makes exactly one generation call, executes no
\* tool and returns the first text block of that response, whatever the
\* other content blocks are.
C3_AsStated ==
    (/\ Finished
     /\ NumResponses >= 1
     /\ responses[1].stop_reason /= "tool_use"
     /\ HasText(responses[1].content)) =>
        /\ NumCalls = 1
        /\ executed = <<>>
        /\ Returned
        /\ result = FirstText(responses[1].content)

(***************************************************************************)
(* C4                                                                      *)
(***************************************************************************)
\* C4: a run with a tool manager that ends otherwise than by a failure of the backend or of a
\* tool returns the first text block of its terminal (last) response, the
\* empty string when that response has no text block; it never raises for
\* want of a text block, whichever call produced the terminal response.
C4_AsStated ==
    (tool_manager /\ Finished /\ result \notin {"APIError", "ToolError"}) =>
        /\ Returned
        /\ result = FirstText(responses[NumResponses].content)

(***************************************************************************)
(* C5                                                                      *)
(***************************************************************************)
\* C5: when a tool execution raises, the run raises that exception, no
\* generation call and no tool execution follows the failing execution, and
\* no answer is returned.
C5_ToolErrorPropagates ==
    \A k \in 1..Len(executed) :
        executed[k].outcome = Raised =>
            /\ k = Len(executed)
            /\ pc = "done"
            /\ status = "raised"
            /\ result = "ToolError"
            /\ NumCalls = executed[k].call

C5_Witness ==
    /\ Len(executed) >= 2
    /\ executed[Len(executed)].outcome = Raised
    /\ executed[Len(executed)].call = MAX_TOOL_ROUNDS
    /\ status = "raised"

(***************************************************************************)
(* C6                                                                      *)
(***************************************************************************)
\* What a completed round n appends to the history: the assistant message
\* with the n-th response's content and, if and only if a tool was executed,
\* one user message holding every result of the round.
RoundMessages(n) ==
    <<[role |-> "assistant", content |-> responses[n].content]>> \o
    (IF ExecsOf(n) = <<>>
     THEN <<>>
     ELSE <<[role |-> "user",
             content |-> [k \in 1..Len(ExecsOf(n)) |->
                            [type |-> "tool_result",
                             tool_use_id |-> ToolUses(responses[n].content)[k].id,
                             content |-> ExecsOf(n)[k].outcome]]]>>)

\* C6: the history passed to the first call is the user's query alone; each
\* completed round appends exactly one assistant message followed, if and
\* only if a tool was executed in it, by exactly one user message holding all
\* its tool results; nothing is removed or reordered; after r rounds that
\* each executed a tool the history passed to the next call has length
\* 1 + 2r.
C6_HistoryGrowth ==
    /\ NumCalls >= 1 => History(1) = <<[role |-> "user", content |-> Query]>>
    /\ \A i \in 2..NumCalls :
          /\ History(i) = History(i - 1) \o RoundMessages(i - 1)
          /\ (\A n \in 1..(i - 1) : ExecsOf(n) /= <<>>) =>
                Len(History(i)) = 1 + 2 * (i - 1)
    /\ pc \in {"loop", "exec"} => IsPrefix(History(NumCalls), messages)

C6_Witness ==
    /\ NumCalls = MAX_TOOL_ROUNDS + 1
    /\ \A n \in 1..MAX_TOOL_ROUNDS : ExecsOf(n) /= <<>>
    /\ Len(ExecsOf(1)) = 2
    /\ Len(History(NumCalls)) = 5

(***************************************************************************)
(* C7                                                                      *)
(***************************************************************************)
\* In history h, the message at position m > 1 is a tool-result message that
\* answers, block by block, the tool_use blocks of the assistant message
\* right before it.
AnswersPreceding(h, m) ==
    /\ h[m - 1].role = "assistant"
    /\ LET asked == ToolUses(h[m - 1].content) IN
       /\ Len(h[m].content) = Len(asked)
       /\ \A k \in 1..Len(asked) :
             /\ h[m].content[k].type = "tool_result"
             /\ h[m].content[k].tool_use_id = asked[k].id

\* C7: in every message history passed to a generation call, each
\* tool-result user message follows an assistant message and its k-th
\* tool_result carries the id of the k-th tool_use block of that assistant
\* message: same count, same order, no id missing and none invented.
C7_ResultLinkage ==
    \A i \in 1..NumCalls :
        \A m \in 2..Len(History(i)) :
            History(i)[m].role = "user" => AnswersPreceding(History(i), m)

C7_Witness ==
    \E i \in 1..NumCalls :
        /\ Len(History(i)) = 5
        /\ Len(History(i)[3].content) = 2
        /\ Len(History(i)[4].content) = 2
        /\ History(i)[4].content[1].type = "text"
        /\ History(i)[5].content[1].tool_use_id = History(i)[4].content[2].id

(***************************************************************************)
(* C8                                                                      *)
(***************************************************************************)
\* C8: the tool_use blocks of a response are executed one at a time in the
\* order they appear: the executions made for the n-th response are, in
\* order, the calls for its first tool_use blocks (name and input of the
\* block), each result is collected before the next execution starts, every
\* block has been executed once the next generation call is made, and all
\* results of the response reach the history as a single user message.
C8_SequentialBatch ==
    /\ \A k \in 2..Len(executed) : executed[k - 1].call <= executed[k].call
    /\ pc = "exec" => Len(tool_results) = Len(ExecsOf(NumCalls))
    /\ \A n \in 1..NumResponses :
          LET asked == ToolUses(responses[n].content)
              done == ExecsOf(n) IN
          /\ Len(done) <= Len(asked)
          /\ \A k \in 1..Len(done) :
                /\ done[k].name = asked[k].name
                /\ done[k].input = asked[k].input
          /\ NumCalls > n =>
                /\ Len(done) = Len(asked)
                /\ Len(History(n + 1)) - Len(History(n)) =
                      (IF asked = <<>> THEN 1 ELSE 2)
                /\ asked /= <<>> =>
                      LET last == History(n + 1)[Len(History(n + 1))] IN
                      /\ last.role = "user"
                      /\ Len(last.content) = Len(asked)
                      /\ \A k \in 1..Len(asked) :
                            last.content[k].content = done[k].outcome

C8_Witness ==
    /\ NumCalls = 2
    /\ Len(ToolUses(responses[1].content)) = 2
    /\ Len(ExecsOf(1)) = 2
    /\ ExecsOf(1)[1].outcome /= ExecsOf(1)[2].outcome
    /\ Len(History(2)) = 3
    /\ Len(History(2)[3].content) = 2

(***************************************************************************)
(* C9                                                                      *)
(***************************************************************************)
\* The first response requests exactly one tool use and a second response
\* exists whose stop_reason is not tool_use.
OneToolThenAnswer ==
    /\ tool_manager
    /\ NumResponses >= 2
    /\ responses[1].stop_reason = "tool_use"
    /\ Len(ToolUses(responses[1].content)) = 1
    /\ responses[2].stop_reason /= "tool_use"

\* C9: when the first response requests exactly one tool use and the second
\* response is not tool_use, exactly 2 generation calls and exactly one tool
\* execution occur, and the history passed to the 2nd call is
\* [user(query), assistant(first response content), user([tool_result])].
C9_OneRound ==
    OneToolThenAnswer =>
        /\ NumCalls = 2
        /\ NumResponses = 2
        /\ Len(executed) = 1
        /\ Len(History(2)) = 3
        /\ History(2) =
              <<[role |-> "user", content |-> Query],
                [role |-> "assistant", content |-> responses[1].content],
                [role |-> "user",
                 content |-> <<[type |-> "tool_result",
                                tool_use_id |->
                                    ToolUses(responses[1].content)[1].id,
                                content |-> executed[1].outcome]>>]>>
        /\ pc \in {"loop", "done"}
        /\ Finished => Returned

C9_Witness ==
    /\ OneToolThenAnswer
    /\ Returned
    /\ Len(responses[1].content) = 2
    /\ result = FirstText(responses[2].content)
    /\ result /= ""

(***************************************************************************)
(* C10                                                                     *)
(***************************************************************************)
\* C10: the response to the final tool-free call (the call issued with the
\* round counter at MAX_TOOL_ROUNDS) is terminal: none of its tool_use
\* blocks is executed, no message is appended, no further generation call is
\* made, and the run returns its text whatever its stop_reason.
C10_FinalResponseTerminal ==
    /\ \A i \in 1..NumCalls :
          calls[i].round = MAX_TOOL_ROUNDS => i = MAX_TOOL_ROUNDS + 1
    /\ NumResponses = MAX_TOOL_ROUNDS + 1 =>
          /\ NumCalls = MAX_TOOL_ROUNDS + 1
          /\ calls[NumCalls].round = MAX_TOOL_ROUNDS
          /\ OmitsTools(NumCalls)
          /\ ExecsOf(MAX_TOOL_ROUNDS + 1) = <<>>
          /\ messages = History(NumCalls)
          /\ pc \in {"loop", "done"}
          /\ Finished =>
                /\ Returned
                /\ result = FirstText(responses[NumResponses].content)

C10_Witness ==
    /\ NumResponses = MAX_TOOL_ROUNDS + 1
    /\ responses[NumResponses].stop_reason = "tool_use"
    /\ ToolUses(responses[NumResponses].content) /= <<>>
    /\ HasText(responses[NumResponses].content)
    /\ Returned

(***************************************************************************)
(* C11                                                                     *)
(***************************************************************************)
\* The j-th response is the first one whose stop_reason is not tool_use.
FirstAnswerAt(j) ==
    /\ NumResponses >= j
    /\ responses[j].stop_reason /= "tool_use"
    /\ \A i \in 1..(j - 1) : responses[i].stop_reason = "tool_use"

\* C11: in a run with a tool manager, when the j-th response
\* (j <= MAX_TOOL_ROUNDS) is the first one whose stop_reason is not tool_use
\* and it holds a text block, the run makes
\* exactly j generation calls, executes the tool_use blocks of responses
\* 1..j-1 and no others, and returns the first text block of the j-th
\* response.
C11_AsStated ==
    \A j \in 1..MAX_TOOL_ROUNDS :
        (/\ tool_manager
         /\ Finished
         /\ FirstAnswerAt(j)
         /\ HasText(responses[j].content)) =>
            /\ NumCalls = j
            /\ \A k \in 1..Len(executed) : executed[k].call < j
            /\ \A i \in 1..(j - 1) :
                  Len(ExecsOf(i)) = Len(ToolUses(responses[i].content))
            /\ Returned
            /\ result = FirstText(responses[j].content)

(***************************************************************************)
(* C12                                                                     *)
(***************************************************************************)
\* The run waits in a generation call that has neither returned nor raised.
Waiting == pc \in {"create", "next"}

\* The i-th generation call failed: it was made, the run no longer waits in
\* it, and no response came back.
CallFailed(i) == i <= NumCalls /\ i > NumResponses /\ ~Waiting

\* C12: a generation call that fails, be it the first, a mid-loop or the
\* final tool-free call, is the last event of the run: the run raises the
\* backend's exception, no generation call and no tool execution follows,
\* and no answer is returned.
C12_ApiErrorPropagates ==
    /\ NumResponses <= NumCalls
    /\ NumCalls <= NumResponses + 1
    /\ \A i \in 1..NumCalls :
          CallFailed(i) =>
              /\ i = NumCalls
              /\ pc = "done"
              /\ status = "raised"
              /\ result = "APIError"
              /\ \A k \in 1..Len(executed) : executed[k].call < i

C12_Witness ==
    /\ CallFailed(MAX_TOOL_ROUNDS + 1)
    /\ Len(executed) >= MAX_TOOL_ROUNDS
    /\ status = "raised"

\* C12, the other two places: the first call and a mid-loop call fail.
C12_WitnessFirst == CallFailed(1) /\ status = "raised"
C12_WitnessMid == CallFailed(2) /\ status = "raised" /\ Len(executed) >= 1

(***************************************************************************)
(* C13                                                                     *)
(***************************************************************************)
Unregistered(name) ==
    name \notin {"search_course_content", "get_course_outline"}

\* The last message of the history passed to the i-th call.
LastMessage(i) == History(i)[Len(History(i))]

\* C13: executing a tool_use block whose name is not registered returns the
\* error string "Tool '<name>' not found", never an exception, and does not
\* abort the run: a run only ends with a tool's exception on a registered
\* tool, and once the round is complete the next generation call is made
\* with that error string as the content of the block's tool_result.
C13_UnknownToolIsData ==
    /\ \A k \in 1..Len(executed) :
          Unregistered(executed[k].name) =>
              /\ executed[k].outcome = "Tool 'nonexistent_tool' not found"
              /\ (k = Len(executed) /\ NumCalls = executed[k].call) =>
                    /\ status = "running"
                    /\ pc = "exec"
                    /\ tool_results[Len(tool_results)].content
                          = executed[k].outcome
    /\ (Finished /\ result = "ToolError") =>
          ~Unregistered(executed[Len(executed)].name)
    /\ \A n \in 1..(NumCalls - 1) :
          LET asked == ToolUses(responses[n].content) IN
          \A j \in 1..Len(asked) :
              Unregistered(asked[j].name) =>
                  LastMessage(n + 1).content[j] =
                      [type |-> "tool_result",
                       tool_use_id |-> asked[j].id,
                       content |-> "Tool 'nonexistent_tool' not found"]

C13_Witness ==
    /\ NumCalls = MAX_TOOL_ROUNDS + 1
    /\ Len(ExecsOf(MAX_TOOL_ROUNDS)) = 2
    /\ Unregistered(ExecsOf(MAX_TOOL_ROUNDS)[1].name)
    /\ LastMessage(NumCalls).content[1].content
          = "Tool 'nonexistent_tool' not found"
    /\ LastMessage(NumCalls).content[2].content = "result"
    /\ Returned


(***************************************************************************)
(* The search tool: the result string and the source slot                  *)
(***************************************************************************)
\* What the vector store can return for a search.  The i-th match of every
\* result is MatchTable[i]; link is what get_lesson_link answers for it.
MatchTable ==
    << [course_title |-> "Course A", lesson_number |-> <<1>>,
        content |-> "Content A", link |-> "https://example.com/lesson1"],
       [course_title |-> "General Course", lesson_number |-> <<>>,
        content |-> "General course content", link |-> NoneValue],
       [course_title |-> "Course B", lesson_number |-> <<2>>,
        content |-> "Content B", link |-> NoneValue],
       [course_title |-> "Course A", lesson_number |-> <<3>>,
        content |-> "Content C", link |-> "https://example.com/lesson3"] >>

StoreErrors == {"No course found matching 'Nonexistent'",
                "Search error: Database connection failed"}

\* SearchResults: an error string, or the first matches rows of MatchTable.
StoreResults ==
    [error : StoreErrors, matches : {0}]
        \cup [error : {NoneValue}, matches : 0..MaxMatches]

StoreException == "Database connection failed"

LessonSuffix(m) ==
    IF m.lesson_number = <<>>
    THEN ""
    ELSE " - Lesson " \o ToString(m.lesson_number[1])

SourceText(m) == m.course_title \o LessonSuffix(m)

FormattedMatch(m) == "[" \o SourceText(m) \o "]\n" \o m.content

RECURSIVE JoinFormatted(_)
JoinFormatted(n) ==
    IF n = 1
    THEN FormattedMatch(MatchTable[1])
    ELSE JoinFormatted(n - 1) \o "\n\n" \o FormattedMatch(MatchTable[n])

NoContentMessage == "No relevant content found."

\* The string CourseSearchTool.execute returns for a result of the store.
SearchResult(store) ==
    IF store.error /= NoneValue
    THEN store.error
    ELSE IF store.matches = 0
         THEN NoContentMessage
         ELSE JoinFormatted(store.matches)

\* One source record.  text and link are the record's fields; query is a
\* history variable naming the request whose execution recorded it.
SourceEntry(m, q) == [text |-> SourceText(m), link |-> m.link, query |-> q]

SourcesOf(n, q) == [i \in 1..n |-> SourceEntry(MatchTable[i], q)]

\* The search found something to format.
RecordsSources(store) == store.error = NoneValue /\ store.matches > 0

\* Mutant of SlotAfterSearch: the slot is written on the success path only;
\* an execution that finds nothing or gets an error from the store leaves
\* the entries of an earlier execution in the slot.
SlotAfterSearch_Keep(slot, store, q) ==
    IF RecordsSources(store)
    THEN SourcesOf(store.matches, q)
    ELSE slot

\* Mutant of SlotAfterSearch: the entries are added to those in the slot.
SlotAfterSearch_Accumulate(slot, store, q) ==
    slot \o SourcesOf(store.matches, q)

\* The slot after an execution: one entry per match, over whatever the slot
\* held ("overwritten each execution"); an execution without a match, the
\* store's error included, produces zero entries.
SlotAfterSearch(slot, store, q) == SourcesOf(store.matches, q)

ResetSlot_Keep(slot) == slot

\* ToolManager.reset_sources
ResetSlot(slot) == <<>>

\* ToolManager.get_last_sources
GetLastSources == last_sources

(***************************************************************************)
(* The /api/query handler around the facade's query                        *)
(***************************************************************************)
RequestSessionIds == {NoneValue, EmptyString, "existing-session-456"}

AnswerOf(q) == "answer " \o ToString(q)

APIException == "API Error"

QueryResponse(answer, sources, session_id) ==
    [status_code |-> 200, answer |-> answer, sources |-> sources,
     session_id |-> session_id, detail |-> Absent]

HTTPException_Partial(e, sources) ==
    [status_code |-> 200, answer |-> EmptyString, sources |-> sources,
     session_id |-> Absent, detail |-> Absent]

\* except Exception as e: raise HTTPException(status_code=500, detail=str(e))
HTTPException(e, sources) ==
    [status_code |-> 500, answer |-> Absent, sources |-> Absent,
     session_id |-> Absent, detail |-> e]

\* "answer: str" of QueryResponse: pydantic refuses None.
ValidAnswer(answer) == answer /= NoneValue

\* The major.minor version of the validation library the handler runs on
\* (pydantic 2.13.2); the text of its errors names it.
LibraryVersion == "2.13"

\* str() of the error QueryResponse raises for answer = None: the count and
\* the model, the field, the message with the input, and the reference.
ValidationErrorMessage ==
    "1 validation error for QueryResponse\n"
        \o "answer\n"
        \o "  Input should be a valid string [type=string_type, "
        \o "input_value=None, input_type=NoneType]\n"
        \o "    For further information visit https://errors.pydantic.dev/"
        \o LibraryVersion \o "/v/string_type"

\* What "return response.content[0].text" raises on an empty content list
\* and on a first block without a text attribute.
IndexErrorMessage == "list index out of range"
AttributeErrorMessage == "'ToolUseBlock' object has no attribute 'text'"

\* The message of the exception a failing session manager raises.
SessionNotFound == "Session not found"

\* The answer of POST /api/session/clear.
SessionCleared ==
    [status_code |-> 200, status |-> "success", message |-> "Session cleared"]

Active(q) == qpc[q] \notin {"idle", "done"}

\* The request is over: the locals of query and of generate_response go.
DropLocals(q) ==
    /\ qround' = [qround EXCEPT ![q] = 0]
    /\ qblock' = [qblock EXCEPT ![q] = 0]
    /\ qsources' = [qsources EXCEPT ![q] = <<>>]
    /\ qhistory' = [qhistory EXCEPT ![q] = NoHistory]
    /\ qanswer' = [qanswer EXCEPT ![q] = NoneValue]

\* Where control is once query is over: back in the handler, in its return
\* statement or in its except clause, or with a caller of its own.
AfterQuery(q, handler_position) ==
    IF qcaller[q] = "handler" THEN handler_position ELSE "done"

\* What a query that raises leaves in the slot.  The steps of query are
\* described for the query that returns; whether the exception passes the
\* reset by, or a cleanup on the way out does it, is not said, and both are
\* outcomes.
LeavesSlot(q, reset) ==
    IF reset
    THEN /\ last_sources' = ResetSlot(last_sources)
         /\ last_search' = NoSearch
         /\ qresets' = [qresets EXCEPT ![q] = @ + 1]
    ELSE UNCHANGED <<last_sources, last_search, qresets>>

\* An exception leaves query.
Fail(q, e) ==
    /\ qpc' = [qpc EXCEPT ![q] = AfterQuery(q, "except")]
    /\ qraised' = [qraised EXCEPT ![q] = e]
    /\ \E reset \in BOOLEAN : LeavesSlot(q, reset)
    /\ DropLocals(q)

\* SessionManager.create_session: the new session has no messages.
CreateSession(store, id) ==
    [store EXCEPT ![id] = [exists |-> TRUE, messages |-> <<>>]]

\* SessionManager.clear_session: the session is forgotten; a session id that
\* is not known is left alone.
ClearStore(store, id) == [store EXCEPT ![id] = NoSession]

\* str() of a message's content in an f-string.
Str(v) == IF v = NoneValue THEN "None" ELSE v

FormatMessage(msg) ==
    (IF msg.role = "user" THEN "User: " ELSE "Assistant: ")
        \o Str(msg.content)

\* SessionManager.get_conversation_history: None for no session id, for an
\* unknown session and for one without messages, else one line per message.
GetConversationHistory(store, id) ==
    IF ~Truthy(id)
    THEN NoHistory
    ELSE IF ~store[id].exists \/ store[id].messages = <<>>
         THEN NoHistory
         ELSE [none |-> FALSE,
               lines |-> [i \in 1..Len(store[id].messages) |->
                             FormatMessage(store[id].messages[i])]]

\* The messages without their k-th exchange.
WithoutExchange(msgs, k) ==
    SubSeq(msgs, 1, 2 * k - 2) \o SubSeq(msgs, 2 * k + 1, Len(msgs))

\* Mutant of Bounded: nothing is ever dropped.
Bounded_All(msgs) == {msgs}

\* The session's turns are "a bounded list": what a list one exchange over
\* the bound of MaxHistory exchanges can become.  The exchange just added
\* stays; which of the earlier ones goes is not said, and each is an
\* outcome.
Bounded(msgs) ==
    IF Len(msgs) > MaxHistory * 2
    THEN {WithoutExchange(msgs, k) : k \in 1..MaxHistory}
    ELSE {msgs}

\* Mutant of AddExchange: every exchange goes to one and the same session.
AddExchange_OneSession(store, id, question, answer) ==
    {[store EXCEPT ![NewSessionId(1)] =
         [exists |-> TRUE, messages |-> kept]] :
        kept \in Bounded(store[NewSessionId(1)].messages \o
                             <<[role |-> "user", content |-> question],
                               [role |-> "assistant", content |-> answer]>>)}

\* SessionManager.add_exchange: the stores that adding the exchange to the
\* session can give; the session is made if it is unknown.
AddExchange(store, id, question, answer) ==
    {[store EXCEPT ![id] = [exists |-> TRUE, messages |-> kept]] :
        kept \in Bounded(store[id].messages \o
                             <<[role |-> "user", content |-> question],
                               [role |-> "assistant", content |-> answer]>>)}

QuestionOf(q) == "question " \o ToString(q)

\* Mutant of NeedsSession: a session is created for every request.
NeedsSession_Always(session_id) == TRUE

\* "if not session_id"
NeedsSession(session_id) == ~Truthy(session_id)

\* query up to its call of generate_response: the history of the session is
\* fetched if a session id was given.
StartQuery(q, session_id, store) ==
    /\ qsession' = [qsession EXCEPT ![q] = session_id]
    /\ qhistory' = [qhistory EXCEPT ![q] =
                       GetConversationHistory(store, session_id)]
    /\ qpc' = [qpc EXCEPT ![q] = "generate"]
    /\ overlapped' = [r \in Requests |->
                        IF \E o \in Requests \ {q} : Active(o)
                        THEN overlapped[r] \/ r = q \/ Active(r)
                        ELSE overlapped[r]]

\* The handler up to its call of query, and query up to its call of
\* generate_response.
Request(q, session_id) ==
    /\ qpc[q] = "idle"
    /\ qcaller' = [qcaller EXCEPT ![q] = "handler"]
    /\ qrequested' = [qrequested EXCEPT ![q] = session_id]
    /\ IF NeedsSession(session_id)
       THEN /\ session_counter' = session_counter + 1
            /\ qcreated' = [qcreated EXCEPT ![q] = @ + 1]
            /\ sessions' = CreateSession(sessions,
                                         NewSessionId(session_counter + 1))
            /\ StartQuery(q, NewSessionId(session_counter + 1), sessions')
       ELSE /\ UNCHANGED <<session_counter, qcreated, sessions>>
            /\ StartQuery(q, session_id, sessions)
    /\ UNCHANGED <<last_sources, last_search, qround, qblock,
                   qsources, qresets, http, qraised, qanswer, returned,
                   clears>>

\* query called by a caller of its own, not through the handler.
CallQuery(q, session_id) ==
    /\ qpc[q] = "idle"
    /\ qcaller' = [qcaller EXCEPT ![q] = "direct"]
    /\ StartQuery(q, session_id, sessions)
    /\ UNCHANGED <<last_sources, last_search, session_counter, qround,
                   qblock, qsources, qresets, qcreated, http,
                   qraised, qrequested, sessions, qanswer, returned,
                   clears>>

\* The latest request whose query ran with session id, 0 when there is none.
LastServed(id) ==
    LET served == {q \in Requests : qpc[q] = "done" /\ qsession[q] = id}
    IN  IF served = {} THEN 0
        ELSE CHOOSE q \in served : \A r \in served : r <= q

\* The handler of POST /api/session/clear.  Handlers run one at a time, so
\* no request is being served.
ClearSession(id) ==
    /\ \A q \in Requests : ~Active(q)
    /\ sessions' = ClearStore(sessions, id)
    /\ clears' = [upto |-> [clears.upto EXCEPT ![id] = LastServed(id)],
                  response |-> SessionCleared]
    /\ UNCHANGED <<last_sources, last_search, session_counter, qpc,
                   qsession, qround, qblock, qsources, qresets,
                   qcreated, overlapped, http, qraised, qrequested,
                   qhistory, qanswer, returned, qcaller>>

\* The handler of POST /api/session/clear when the session manager raises:
\* the exception becomes a 500 response and the store is as it was.
ClearSessionRaises(id) ==
    /\ \A q \in Requests : ~Active(q)
    /\ clears' = [clears EXCEPT !.response =
                     HTTPException(SessionNotFound, <<>>)]
    /\ UNCHANGED <<last_sources, last_search, session_counter, qpc,
                   qsession, qround, qblock, qsources, qresets,
                   qcreated, overlapped, http, qraised, qrequested,
                   sessions, qhistory, qanswer, returned, qcaller>>

\* generate_response seen from the facade: tool executions in at most
\* MAX_TOOL_ROUNDS rounds of at least one and at most MaxBlocks executions
\* each, ended by a return or by an exception.
CanExecute(q, newround) ==
    /\ qpc[q] = "generate"
    /\ IF newround
       THEN qround[q] < MAX_TOOL_ROUNDS
       ELSE qround[q] >= 1 /\ qblock[q] < MaxBlocks

CountExecution(q, newround) ==
    /\ qround' = [qround EXCEPT ![q] = IF newround THEN @ + 1 ELSE @]
    /\ qblock' = [qblock EXCEPT ![q] = IF newround THEN 1 ELSE @ + 1]

\* execute_tool("search_course_content", ...) with the store answering.
SearchCall(q, newround, store) ==
    /\ CanExecute(q, newround)
    /\ CountExecution(q, newround)
    /\ last_sources' = SlotAfterSearch(last_sources, store, q)
    /\ last_search' = [query |-> q, error |-> store.error,
                       matches |-> store.matches,
                       result |-> SearchResult(store),
                       before |-> last_sources]
    /\ UNCHANGED <<session_counter, qpc, qsession, qsources, qresets,
                   qcreated, overlapped, http, qraised, qrequested,
                   sessions, qhistory, qanswer, returned, clears, qcaller>>

\* execute_tool("search_course_content", ...) with the store raising: the
\* exception passes through the tool before it has written anything.
SearchRaises(q, newround) ==
    /\ CanExecute(q, newround)
    /\ Fail(q, StoreException)
    /\ UNCHANGED <<session_counter, qsession, qcreated, overlapped, http,
                   qrequested, sessions, returned, clears, qcaller>>

\* execute_tool of the outline tool or of a name that is not registered:
\* a string comes back and the slot is left alone.
OtherToolCall(q, newround) ==
    /\ CanExecute(q, newround)
    /\ CountExecution(q, newround)
    /\ UNCHANGED <<last_sources, last_search, session_counter, qpc,
                   qsession, qsources, qresets, qcreated, overlapped, http,
                   qraised, qrequested, sessions, qhistory, qanswer,
                   returned, clears, qcaller>>

\* The run took the return outside the loop ("return
\* response.content[0].text"): no tool was executed.
ReturnedOutsideLoop(q) == qround[q] = 0

\* What generate_response can return: a text, or on the return outside the
\* loop the None that a block without text holds.
GeneratedAnswers(q) ==
    {AnswerOf(q)} \cup (IF ReturnedOutsideLoop(q) THEN {NoneValue} ELSE {})

\* What generate_response can raise of its own: the exception of a create
\* call, or on the return outside the loop the IndexError of an empty
\* content list and the AttributeError of a block without text.
GenerateExceptions(q) ==
    {APIException} \cup
        (IF ReturnedOutsideLoop(q)
         THEN {IndexErrorMessage, AttributeErrorMessage}
         ELSE {})

\* generate_response returns answer.
GenerateReturnsWith(q, answer) ==
    /\ qpc[q] = "generate"
    /\ qanswer' = [qanswer EXCEPT ![q] = answer]
    /\ qpc' = [qpc EXCEPT ![q] = "read"]
    /\ UNCHANGED <<last_sources, last_search, session_counter, qsession,
                   qround, qblock, qsources, qresets, qcreated,
                   overlapped, http, qraised, qrequested, sessions,
                   qhistory, returned, clears, qcaller>>

GenerateReturns(q) ==
    \E answer \in GeneratedAnswers(q) : GenerateReturnsWith(q, answer)

\* generate_response raises e.
GenerateRaisesWith(q, e) ==
    /\ qpc[q] = "generate"
    /\ Fail(q, e)
    /\ UNCHANGED <<session_counter, qsession, qcreated, overlapped, http,
                   qrequested, sessions, returned, clears, qcaller>>

GenerateRaises(q) == \E e \in GenerateExceptions(q) : GenerateRaisesWith(q, e)

\* sources = self.tool_manager.get_last_sources()
ReadSources(q) ==
    /\ qpc[q] = "read"
    /\ qsources' = [qsources EXCEPT ![q] = GetLastSources]
    /\ qpc' = [qpc EXCEPT ![q] = "reset"]
    /\ UNCHANGED <<last_sources, last_search, session_counter, qsession,
                   qround, qblock, qresets, qcreated, overlapped,
                   http, qraised, qrequested, sessions, qhistory, qanswer,
                   returned, clears, qcaller>>

\* self.tool_manager.reset_sources()
ResetSources(q) ==
    /\ qpc[q] = "reset"
    /\ last_sources' = ResetSlot(last_sources)
    /\ last_search' = NoSearch
    /\ qresets' = [qresets EXCEPT ![q] = @ + 1]
    /\ qpc' = [qpc EXCEPT ![q] = "record"]
    /\ UNCHANGED <<session_counter, qsession, qround, qblock,
                   qsources, qcreated, overlapped, http, qraised,
                   qrequested, sessions, qhistory, qanswer, returned,
                   clears, qcaller>>

\* query records the exchange in the session, if it was given a session id,
\* and returns (response, sources) to its caller.
QueryReturns(q) ==
    /\ qpc[q] = "record"
    /\ qpc' = [qpc EXCEPT ![q] = AfterQuery(q, "respond")]
    /\ IF Truthy(qsession[q])
       THEN sessions' \in AddExchange(sessions, qsession[q], QuestionOf(q),
                                      qanswer[q])
       ELSE sessions' = sessions
    /\ returned' = [returned EXCEPT ![q] =
                       [made |-> TRUE, answer |-> qanswer[q],
                        sources |-> qsources[q]]]
    /\ DropLocals(q)
    /\ UNCHANGED <<last_sources, last_search, session_counter, qsession,
                   qresets, qcreated, overlapped, http, qraised, qrequested,
                   clears, qcaller>>

\* The handler's answer to what query returned: the QueryResponse, or the
\* 500 of its except clause when QueryResponse refuses the answer.
HandlerAnswer(answer, sources, session_id) ==
    IF ValidAnswer(answer)
    THEN QueryResponse(answer, sources, session_id)
    ELSE HTTPException(ValidationErrorMessage, sources)

\* What the steps of the handler after query leave alone.
QueryState ==
    <<last_sources, last_search, session_counter, qsession, qround, qblock,
      qsources, qresets, qcreated, overlapped, qraised, qrequested,
      sessions, qhistory, qanswer, returned, clears, qcaller>>

\* "return QueryResponse(answer=answer, sources=sources,
\* session_id=session_id)" with what query returned.
Respond(q) ==
    /\ qpc[q] = "respond"
    /\ qpc' = [qpc EXCEPT ![q] = "done"]
    /\ http' = [http EXCEPT ![q] =
                   Append(@, HandlerAnswer(returned[q].answer,
                                           returned[q].sources, qsession[q]))]
    /\ UNCHANGED QueryState

\* The except clause of the handler with the exception that left query.
RespondError(q) ==
    /\ qpc[q] = "except"
    /\ qpc' = [qpc EXCEPT ![q] = "done"]
    /\ http' = [http EXCEPT ![q] =
                   Append(@, HTTPException(qraised[q], GetLastSources))]
    /\ UNCHANGED QueryState

\* What the steps of the requests leave alone.
Orchestration == <<vars, run_vars>>

OrchestratorIdle ==
    /\ tools = "[defs]"
    /\ tool_manager = TRUE
    /\ conversation_history = NoneValue
    /\ pc = "start"
    /\ base_messages = <<>>
    /\ messages = <<>>
    /\ current_round = 0
    /\ response = NoResponse
    /\ tool_results = <<>>
    /\ block_index = 1
    /\ calls = <<>>
    /\ responses = <<>>
    /\ executed = <<>>
    /\ status = "running"
    /\ result = NoneValue

FacadeInit == OrchestratorIdle /\ FacadeIdle /\ RunsIdle

\* Queries made one after another by a caller of its own, as the tests of
\* the facade make them: a query is made only when every earlier one is
\* over.  They pass no session id.
Arrive(q) ==
    /\ q <= MaxQueries
    /\ \A r \in Requests : r < q <=> qpc[r] = "done"
    /\ CallQuery(q, NoneValue)

Search(q) ==
    \E newround \in BOOLEAN, store \in StoreResults :
        SearchCall(q, newround, store)

SearchFails(q) == \E newround \in BOOLEAN : SearchRaises(q, newround)

OtherTool(q) == \E newround \in BOOLEAN : OtherToolCall(q, newround)

SequentialNext ==
    \/ \E q \in Requests : Arrive(q) /\ UNCHANGED Orchestration
    \/ \E q \in Requests : Search(q) /\ UNCHANGED Orchestration
    \/ \E q \in Requests : SearchFails(q) /\ UNCHANGED Orchestration
    \/ \E q \in Requests : OtherTool(q) /\ UNCHANGED Orchestration
    \/ \E q \in Requests : GenerateReturns(q) /\ UNCHANGED Orchestration
    \/ \E q \in Requests : GenerateRaises(q) /\ UNCHANGED Orchestration
    \/ \E q \in Requests : ReadSources(q) /\ UNCHANGED Orchestration
    \/ \E q \in Requests : ResetSources(q) /\ UNCHANGED Orchestration
    \/ \E q \in Requests : QueryReturns(q) /\ UNCHANGED Orchestration

SpecSequential == FacadeInit /\ [][SequentialNext]_all_vars

\* Two requests to POST /api/query, served one after the other by the
\* handler: the second arrives only when the first has been answered.
\* Before, in between and after, sessions are cleared through POST
\* /api/session/clear.
HandlerRequests == {1, 2}

ArriveAtHandler(q) ==
    /\ q \in HandlerRequests
    /\ \A r \in Requests : r < q <=> qpc[r] = "done"
    /\ \E session_id \in RequestSessionIds : Request(q, session_id)

\* The session ids POST /api/session/clear is called with: a session that
\* was handed out, one of the client's own, and one no query has used.
ClearedIds == {NewSessionId(1), "existing-session-456", "session-to-clear"}

HandlerNext ==
    \/ \E q \in Requests : ArriveAtHandler(q) /\ UNCHANGED Orchestration
    \/ \E id \in ClearedIds : ClearSession(id) /\ UNCHANGED Orchestration
    \/ \E id \in ClearedIds : ClearSessionRaises(id)
                                  /\ UNCHANGED Orchestration
    \/ \E q \in Requests : Search(q) /\ UNCHANGED Orchestration
    \/ \E q \in Requests : SearchFails(q) /\ UNCHANGED Orchestration
    \/ \E q \in Requests : GenerateReturns(q) /\ UNCHANGED Orchestration
    \/ \E q \in Requests : GenerateRaises(q) /\ UNCHANGED Orchestration
    \/ \E q \in Requests : ReadSources(q) /\ UNCHANGED Orchestration
    \/ \E q \in Requests : ResetSources(q) /\ UNCHANGED Orchestration
    \/ \E q \in Requests : QueryReturns(q) /\ UNCHANGED Orchestration
    \/ \E q \in Requests : Respond(q) /\ UNCHANGED Orchestration
    \/ \E q \in Requests : RespondError(q) /\ UNCHANGED Orchestration

SpecHandler == FacadeInit /\ [][HandlerNext]_all_vars

\* Two callers inside query at once, on one facade with one tool manager and
\* one search tool, every step of one interleaved with the steps of the
\* other.  The callers are threads of their own, not the handler, whose
\* coroutine serves one request at a time; they pass no session id.  The
\* generator and the store answer both: nothing raises.
ConcurrentRequests == {1, 2}

ArriveConcurrently(q) == CallQuery(q, NoneValue)

ConcurrentNext ==
    \/ \E q \in ConcurrentRequests :
          ArriveConcurrently(q) /\ UNCHANGED Orchestration
    \/ \E q \in ConcurrentRequests :
          Search(q) /\ UNCHANGED Orchestration
    \/ \E q \in ConcurrentRequests :
          OtherTool(q) /\ UNCHANGED Orchestration
    \/ \E q \in ConcurrentRequests :
          GenerateReturns(q) /\ UNCHANGED Orchestration
    \/ \E q \in ConcurrentRequests :
          ReadSources(q) /\ UNCHANGED Orchestration
    \/ \E q \in ConcurrentRequests :
          ResetSources(q) /\ UNCHANGED Orchestration
    \/ \E q \in ConcurrentRequests :
          QueryReturns(q) /\ UNCHANGED Orchestration

SpecConcurrent == FacadeInit /\ [][ConcurrentNext]_all_vars

\* SessionManager.create_session called by the client itself, as the tests
\* of the sessions do before their first query.
CreateSessionCall ==
    /\ session_counter < CreatedSessions
    /\ \A q \in Requests : ~Active(q)
    /\ session_counter' = session_counter + 1
    /\ sessions' = CreateSession(sessions, NewSessionId(session_counter + 1))
    /\ UNCHANGED <<last_sources, last_search, qpc, qsession, qround, qblock,
                   qsources, qresets, qcreated, overlapped, http, qraised,
                   qrequested, qhistory, qanswer, returned, clears, qcaller>>

\* Queries made one after another, followed for their sessions only: the
\* generator answers with a text or the API raises, without a tool being
\* used, and sessions are cleared between queries.  A query carries no
\* session id or the id of a session the client has created.
SessionQueryIds ==
    {NoneValue} \cup {NewSessionId(n) : n \in 1..session_counter}

ArriveInSession(q) ==
    /\ q <= MaxSessionQueries
    /\ \A r \in Requests : r < q <=> qpc[r] = "done"
    /\ \E session_id \in SessionQueryIds : CallQuery(q, session_id)

\* The sessions that are cleared between the queries: those the client
\* creates.
UsedIds == {NewSessionId(n) : n \in 1..CreatedSessions}

SessionsNext ==
    \/ CreateSessionCall /\ UNCHANGED Orchestration
    \/ \E q \in Requests : ArriveInSession(q) /\ UNCHANGED Orchestration
    \/ \E id \in UsedIds : ClearSession(id) /\ UNCHANGED Orchestration
    \/ \E q \in Requests : GenerateReturnsWith(q, AnswerOf(q))
                               /\ UNCHANGED Orchestration
    \/ \E q \in Requests : GenerateRaisesWith(q, APIException)
                               /\ UNCHANGED Orchestration
    \/ \E q \in Requests : ReadSources(q) /\ UNCHANGED Orchestration
    \/ \E q \in Requests : ResetSources(q) /\ UNCHANGED Orchestration
    \/ \E q \in Requests : QueryReturns(q) /\ UNCHANGED Orchestration

SpecSessions == FacadeInit /\ [][SessionsNext]_all_vars

(***************************************************************************)
(* Vocabulary of the properties about requests                             *)
(***************************************************************************)
Responded(q) == Len(http[q]) >= 1
Answered(q) == Responded(q) /\ http[q][1].status_code = 200
Failed(q) == Responded(q) /\ http[q][1].status_code /= 200

\* The query of request q has returned to its caller.
QueryReturned(q) == returned[q].made

RecordedBy(entries, q) == \A i \in DOMAIN entries : entries[i].query = q

\* The query of request q has read the slot and has not yet returned.
HasRead(q) == qpc[q] \in {"reset", "record"}

\* A query that returns has reset the slot exactly once, after reading it.
ResetOncePerAnsweredQuery ==
    \A q \in Requests :
        /\ qpc[q] = "reset" => qresets[q] = 0
        /\ qpc[q] = "record" \/ QueryReturned(q) => qresets[q] = 1

\* An exception was propagated from the query of request q.
QueryRaised(q) == qraised[q] /= NoneValue

\* Every query that is over, returned or raised, has reset the slot exactly
\* once, and the sources a query returns were all recorded by its own tool
\* executions.  It holds of the queries that return; of a query that raises
\* it holds when the reset is done on the way out and fails when it is
\* passed by.
ResetOncePerQueryCall ==
    /\ ResetOncePerAnsweredQuery
    /\ \A q \in Requests :
          /\ QueryRaised(q) => qresets[q] = 1
          /\ HasRead(q) => RecordedBy(qsources[q], q)
          /\ QueryReturned(q) => RecordedBy(returned[q].sources, q)

\* The source texts and links the matches of MatchTable are to be cited by.
ExpectedTexts ==
    <<"Course A - Lesson 1", "General Course", "Course B - Lesson 2",
      "Course A - Lesson 3">>

ExpectedLinks ==
    <<"https://example.com/lesson1", NoneValue, NoneValue,
      "https://example.com/lesson3">>

Searched == last_search.query /= 0

\* The latest search execution got matches from the store.
Succeeded(search) ==
    /\ search.query /= 0
    /\ search.result /= Raised
    /\ search.error = NoneValue
    /\ search.matches > 0

\* One entry per returned match, in match order.
EntriesProducedBy(search) ==
    IF Succeeded(search)
    THEN [i \in 1..search.matches |->
             [text |-> ExpectedTexts[i], link |-> ExpectedLinks[i],
              query |-> search.query]]
    ELSE <<>>

\* C15: after any sequence of search executions the slot holds exactly the
\* entries produced by the most recent execution, one per match in match
\* order, and nothing of earlier executions.
C15_LastWriteWins == Searched => last_sources = EntriesProducedBy(last_search)

\* The second search of a query found one match where the first had found
\* two: the slot holds the one entry.
C15_Witness ==
    /\ Searched
    /\ Len(last_search.before) = 2
    /\ last_search.matches = 1
    /\ Len(last_sources) = 1
    /\ last_sources[1].text = "Course A - Lesson 1"
    /\ qpc[last_search.query] = "generate"


\* Request q has just called reset_sources and nothing has run since.
JustReset(q) == qpc[q] = "record"

\* C16: right after reset_sources, get_last_sources returns the empty list
\* whatever was executed before; and once a search executed after the reset
\* has succeeded, get_last_sources returns exactly one entry per returned
\* match, in match order.
C16_ResetThenPopulate ==
    /\ \A q \in Requests : JustReset(q) => GetLastSources = <<>>
    /\ Succeeded(last_search) =>
          /\ Len(GetLastSources) = last_search.matches
          /\ GetLastSources = EntriesProducedBy(last_search)

\* A first query found a source, read it, reset the slot and returned; the
\* second query's search then succeeds with two matches.
C16_Witness ==
    /\ QueryReturned(1)
    /\ Len(returned[1].sources) = 1
    /\ qresets[1] = 1
    /\ qpc[2] = "generate"
    /\ Succeeded(last_search)
    /\ last_search.query = 2
    /\ last_search.matches = 2
    /\ Len(GetLastSources) = 2

\* The reset itself, on a slot that held entries.
C16_WitnessReset ==
    \E q \in Requests :
        JustReset(q) /\ qsources[q] /= <<>> /\ GetLastSources = <<>>


\* The store reported an error to the latest search execution.
StoreReportedError == Searched /\ last_search.error /= NoneValue

\* C17: when the vector store reports an error, the search tool returns that
\* error string verbatim as its result, does not raise, and produces zero
\* source entries: the slot is empty after the execution, whatever it held
\* before.
C17_StoreErrorIsResult ==
    StoreReportedError =>
        /\ last_search.result = last_search.error
        /\ last_search.result /= Raised
        /\ GetLastSources = <<>>

\* A search with a course filter that matches no course, executed after a
\* search of the same query that had recorded a source: the error string
\* is the result, the query goes on, and the slot is empty.
C17_Witness ==
    /\ StoreReportedError
    /\ last_search.error = "No course found matching 'Nonexistent'"
    /\ last_search.result = "No course found matching 'Nonexistent'"
    /\ Len(last_search.before) = 1
    /\ last_sources = <<>>
    /\ qpc[last_search.query] = "generate"


ErrorResponse(message) ==
    [status_code |-> 500, detail |-> message, answer |-> Absent,
     sources |-> Absent, session_id |-> Absent]

\* The handler is done with request q.
Handled(q) == qcaller[q] = "handler" /\ qpc[q] = "done"

\* C18: a request whose query propagated an exception gets exactly one
\* response, HTTP 500 carrying the exception message, with no answer and no
\* source list; before the handler's except clause has run it has none, and
\* no request ever gets more than one response.
C18_SingleErrorResponse ==
    \A q \in Requests :
        /\ Len(http[q]) <= 1
        /\ Handled(q) => Len(http[q]) = 1
        /\ QueryRaised(q) =>
              /\ ~QueryReturned(q)
              /\ qpc[q] \in {"except", "done"}
              /\ qpc[q] = "except" => http[q] = <<>>
              /\ qpc[q] = "done" => http[q] = <<ErrorResponse(qraised[q])>>
              /\ qraised[q] \in {"API Error", "Database connection failed",
                                 "list index out of range",
                                 "'ToolUseBlock' object has no attribute 'text'"}

\* The query of request 1 raised after one of its searches had recorded two
\* sources: they are in the slot, and the response carries none of them.
C18_Witness ==
    /\ QueryRaised(1)
    /\ qraised[1] = "Database connection failed"
    /\ Len(last_sources) = 2
    /\ RecordedBy(last_sources, 1)
    /\ Handled(1)
    /\ Len(http[1]) = 1
    /\ http[1][1].status_code = 500
    /\ http[1][1].detail = "Database connection failed"
    /\ http[1][1].sources = Absent


\* Query q returned a source that another query's search recorded.
Misattributed(q) ==
    QueryReturned(q) /\ ~RecordedBy(returned[q].sources, q)

C19_WitnessOverwritten ==
    /\ QueryReturned(1) /\ QueryReturned(2)
    /\ overlapped[1] /\ overlapped[2]
    /\ Len(returned[1].sources) = 2
    /\ RecordedBy(returned[1].sources, 2)
    /\ returned[2].sources = <<>>

\* The two queries one after the other: each returns its own sources.
C19_WitnessSerialized ==
    /\ QueryReturned(1) /\ QueryReturned(2)
    /\ ~overlapped[1] /\ ~overlapped[2]
    /\ Len(returned[1].sources) = 1
    /\ Len(returned[2].sources) = 2
    /\ RecordedBy(returned[1].sources, 1)
    /\ RecordedBy(returned[2].sources, 2)


(***************************************************************************)
(* Two interleaved runs of generate_response on one AIGenerator instance   *)
(***************************************************************************)
\* Mutant of Frame: the locals are kept on the instance, one copy for all
\* runs.
Frame_Shared(r) == 1

\* The frame that holds the locals of run r: every call of generate_response
\* and of _execute_tool_calling_loop has its own api_params, messages,
\* current_round, response and tool_results.
Frame(r) == r

RunQuery(r) == "query " \o ToString(r)

\* The runs are given tool schemas and a tool manager, and no history.
RunTools == "[defs]"

RunShapes == {<<"text">>, <<"tool_use">>, <<"tool_use", "text">>}

RunStopReasons == {"tool_use", "end_turn"}

\* The blocks of the n-th response to run r: the runs get different texts,
\* ids, names and inputs.
RunRow(r, n) == Min({n + r - 1, Len(BlockTexts)})

RunResponses(r, n) ==
    {[stop_reason |-> s,
      content |-> [p \in 1..Len(sh) |-> Block(RunRow(r, n), p, sh[p])]] :
        s \in RunStopReasons, sh \in RunShapes}

\* "return response.content[0].text", as a set of outcomes.
FirstBlockOutcomes(resp) ==
    IF resp.content = <<>>
    THEN {[status |-> "raised", result |-> "IndexError"]}
    ELSE IF resp.content[1].type = "text"
         THEN {[status |-> "returned", result |-> resp.content[1].text]}
         ELSE {[status |-> "raised", result |-> "AttributeError"],
               [status |-> "returned", result |-> NoneValue]}

RunEnds(r, status_, result_) ==
    /\ run_pc' = [run_pc EXCEPT ![r] = "done"]
    /\ run_status' = [run_status EXCEPT ![r] = status_]
    /\ run_result' = [run_result EXCEPT ![r] = result_]

RunGoes(r, position) ==
    /\ run_pc' = [run_pc EXCEPT ![r] = position]
    /\ UNCHANGED <<run_status, run_result>>

\* generate_response of run r up to its first create call: the keyword
\* arguments are built and handed to client.messages.create, where the run
\* waits.
RunGenerateResponse(r) ==
    /\ run_pc[r] = "start"
    /\ LET c == Frame(r)
           params == ApiParams(RunQuery(r), RunTools, NoneValue) IN
       /\ sent' = [sent EXCEPT ![r] = Append(@, params)]
       /\ frame' = [frame EXCEPT ![c].api_params = params]
    /\ RunGoes(r, "create")
    /\ UNCHANGED <<delivered, outputs>>

\* The first create call of run r raises, or returns a response; with the
\* response generate_response returns, raises, or enters the loop.
RunFirstCallReturns(r) ==
    /\ run_pc[r] = "create"
    /\ LET c == Frame(r)
           f == frame[c] IN
       \/ /\ RunEnds(r, "raised", "APIError")
          /\ UNCHANGED <<frame, delivered>>
       \/ \E resp \in RunResponses(r, 1) :
             /\ delivered' = [delivered EXCEPT ![r] = Append(@, resp)]
             /\ IF EntersLoop(resp, TRUE)
                THEN /\ frame' = [frame EXCEPT
                                     ![c].response = resp,
                                     ![c].messages = f.api_params.messages,
                                     ![c].current_round = 0]
                     /\ RunGoes(r, "loop")
                ELSE /\ frame' = [frame EXCEPT ![c].response = resp]
                     /\ \E o \in FirstBlockOutcomes(resp) :
                           RunEnds(r, o.status, o.result)
    /\ UNCHANGED <<sent, outputs>>

\* Top of the while loop of run r.
RunLoopHead(r) ==
    /\ run_pc[r] = "loop"
    /\ LET c == Frame(r)
           f == frame[c] IN
       IF LoopCondition(f.current_round) /\ WantsTools(f.response)
       THEN /\ frame' = [frame EXCEPT
                            ![c].messages =
                                Append(f.messages,
                                       AssistantMessage(f.response)),
                            ![c].tool_results = <<>>,
                            ![c].block_index = 1]
            /\ RunGoes(r, "exec")
       ELSE /\ RunEnds(r, "returned", ExtractText(f.response.content))
            /\ UNCHANGED frame
    /\ UNCHANGED <<sent, delivered, outputs>>

\* _execute_tools of run r: one iteration of the for loop that executes a
\* tool.
RunExecuteTool(r) ==
    /\ run_pc[r] = "exec"
    /\ LET c == Frame(r)
           f == frame[c] IN
       /\ ToolUsePositionsFrom(f.response.content, f.block_index) /= {}
       /\ LET p == NextToolUse(f.response.content, f.block_index)
              block == f.response.content[p] IN
          \/ /\ Raised \in ExecuteToolOutcomes(block.name)
             /\ RunEnds(r, "raised", "ToolError")
             /\ UNCHANGED <<frame, outputs>>
          \/ \E output \in ExecuteToolOutcomes(block.name) \ {Raised} :
                /\ frame' = [frame EXCEPT
                                ![c].tool_results =
                                    Append(f.tool_results,
                                           ToolResult(block, output)),
                                ![c].block_index = p + 1]
                /\ outputs' = [outputs EXCEPT ![r] = Append(@, output)]
                /\ RunGoes(r, "exec")
    /\ UNCHANGED <<sent, delivered>>

\* The rest of the loop body of run r: the append of the tool results, the
\* increment, and the next create call, in which the run waits.
RunFinishRound(r) ==
    /\ run_pc[r] = "exec"
    /\ LET c == Frame(r)
           f == frame[c]
           msgs == WithToolResults(f.messages, f.tool_results)
           round == f.current_round + 1
           params == NextApiParams(msgs, round, f.api_params) IN
       /\ ToolUsePositionsFrom(f.response.content, f.block_index) = {}
       /\ sent' = [sent EXCEPT ![r] = Append(@, params)]
       /\ frame' = [frame EXCEPT ![c].messages = msgs,
                                 ![c].current_round = round]
    /\ RunGoes(r, "next")
    /\ UNCHANGED <<delivered, outputs>>

\* The create call at the end of the loop body of run r raises, or returns
\* the response the next pass of the loop works on.
RunNextCallReturns(r) ==
    /\ run_pc[r] = "next"
    /\ LET c == Frame(r) IN
       \/ /\ RunEnds(r, "raised", "APIError")
          /\ UNCHANGED <<frame, delivered>>
       \/ \E resp \in RunResponses(r, Len(sent[r])) :
             /\ frame' = [frame EXCEPT ![c].response = resp]
             /\ delivered' = [delivered EXCEPT ![r] = Append(@, resp)]
             /\ RunGoes(r, "loop")
    /\ UNCHANGED <<sent, outputs>>

\* What the steps of the runs leave alone.
Outside == <<vars, facade_vars>>

RunsInit == OrchestratorIdle /\ FacadeIdle /\ RunsIdle

RunsNext ==
    \/ \E r \in Runs : RunGenerateResponse(r) /\ UNCHANGED Outside
    \/ \E r \in Runs : RunFirstCallReturns(r) /\ UNCHANGED Outside
    \/ \E r \in Runs : RunLoopHead(r) /\ UNCHANGED Outside
    \/ \E r \in Runs : RunExecuteTool(r) /\ UNCHANGED Outside
    \/ \E r \in Runs : RunFinishRound(r) /\ UNCHANGED Outside
    \/ \E r \in Runs : RunNextCallReturns(r) /\ UNCHANGED Outside

SpecRuns == RunsInit /\ [][RunsNext]_all_vars


(***************************************************************************)
(* Vocabulary of the properties about interleaved runs                     *)
(***************************************************************************)
RECURSIVE CountToolUses(_, _)
\* Number of tool_use blocks in the first j responses given to run r.
CountToolUses(r, j) ==
    IF j = 0
    THEN 0
    ELSE CountToolUses(r, j - 1) + Len(ToolUses(delivered[r][j].content))

\* The tool results answering the j-th response given to run r, built from
\* that response's tool_use blocks and the outputs of the run's own
\* executions.
OwnResults(r, j) ==
    LET uses == ToolUses(delivered[r][j].content)
        before == CountToolUses(r, j - 1) IN
    [k \in 1..Len(uses) |->
        [type |-> "tool_result", tool_use_id |-> uses[k].id,
         content |-> outputs[r][before + k]]]

RECURSIVE OwnHistory(_, _)
\* The message list run r is to send on its i-th create call: its own query,
\* then for each of its earlier responses the assistant message and, when
\* tools were executed, the user message with their results.
OwnHistory(r, i) ==
    IF i = 1
    THEN <<[role |-> "user", content |-> RunQuery(r)]>>
    ELSE OwnHistory(r, i - 1)
             \o <<[role |-> "assistant",
                   content |-> delivered[r][i - 1].content]>>
             \o (IF OwnResults(r, i - 1) = <<>>
                 THEN <<>>
                 ELSE <<[role |-> "user",
                         content |-> OwnResults(r, i - 1)]>>)

\* C20: two runs on one AIGenerator instance, interleaved in any way, share
\* no orchestration state.  Every create call of a run carries the history
\* built from the run's own query, its own responses and its own tool
\* results; it offers tools according to the run's own round count, which
\* stops the run after MAX_TOOL_ROUNDS + 1 calls; a run is never given a
\* response without having asked; and what it returns is the text of its own
\* last response (or None on the first-call path).
C20_RunsIsolated ==
    \A r \in Runs :
        /\ Len(sent[r]) <= MAX_TOOL_ROUNDS + 1
        /\ Len(delivered[r]) <= Len(sent[r])
        /\ Len(sent[r]) - Len(delivered[r]) <= 1
        /\ \A i \in 1..Len(sent[r]) :
              /\ sent[r][i].messages = OwnHistory(r, i)
              /\ (sent[r][i].tools /= Absent) <=> (i - 1 < MAX_TOOL_ROUNDS)
        /\ run_status[r] = "returned" =>
              run_result[r] \in
                  {FirstText(delivered[r][Len(delivered[r])].content),
                   NoneValue}

\* Both runs are in progress at once, each executing the tools of its second
\* round: each has sent, on its second call, the three-message history built
\* from its own query, and the frames hold different histories.
C20_Witness ==
    /\ run_pc[1] = "exec" /\ run_pc[2] = "exec"
    /\ Len(sent[1]) = 2 /\ Len(sent[2]) = 2
    /\ Len(sent[1][2].messages) = 3
    /\ Len(sent[2][2].messages) = 3
    /\ sent[1][2].messages[1].content = "query 1"
    /\ sent[2][2].messages[1].content = "query 2"
    /\ frame[1].current_round = 1 /\ frame[2].current_round = 1
    /\ frame[1].messages /= frame[2].messages
    /\ Len(outputs[1]) = 2 /\ Len(outputs[2]) = 1

\* Both runs wait in their second create call at once: each has sent two
\* calls and received one response, and each frame already holds the
\* history and the round count of the call that is outstanding.
C20_WitnessOutstanding ==
    /\ run_pc[1] = "next" /\ run_pc[2] = "next"
    /\ Len(sent[1]) = 2 /\ Len(sent[2]) = 2
    /\ Len(delivered[1]) = 1 /\ Len(delivered[2]) = 1
    /\ frame[1].current_round = 1 /\ frame[2].current_round = 1
    /\ frame[1].messages = sent[1][2].messages
    /\ frame[2].messages = sent[2][2].messages

\* Both runs wait in their first create call at once, none has a response.
C20_WitnessFirstCalls ==
    /\ run_pc[1] = "create" /\ run_pc[2] = "create"
    /\ Len(sent[1]) = 1 /\ Len(sent[2]) = 1
    /\ Len(delivered[1]) = 0 /\ Len(delivered[2]) = 0


(***************************************************************************)
(* Properties of the generation calls of one run                           *)
(***************************************************************************)
\* The i-th generation call's keyword arguments.
Params(i) == calls[i].params

HistorySupplied == conversation_history \notin {NoneValue, ""}

\* The system content the run is to use.
ExpectedSystem ==
    IF HistorySupplied
    THEN <<SYSTEM_PROMPT, "\n\nPrevious conversation:\n",
           conversation_history>>
    ELSE <<SYSTEM_PROMPT>>

\* C21: every generation call of a run, the first, the mid-loop and the
\* final tool-free one, carries the same system content: the static prompt
\* followed by "Previous conversation:" and the history when a non-empty
\* history was supplied, and exactly the static prompt otherwise.
C21_SystemContentFixed ==
    \A i \in 1..NumCalls : Params(i).system = ExpectedSystem

\* A run with a history that made all three calls, the last without tools,
\* each with the prompt, the separator and the history.
C21_Witness ==
    /\ conversation_history = "history"
    /\ NumCalls = MAX_TOOL_ROUNDS + 1
    /\ OmitsTools(NumCalls)
    /\ Len(executed) >= 2
    /\ \A i \in 1..NumCalls :
          Params(i).system =
              <<SYSTEM_PROMPT, "\n\nPrevious conversation:\n", "history">>

ToolListSupplied == tools \notin {NoneValue, "[]"}

\* C22: the first generation call carries tools and tool_choice auto exactly
\* when a non-empty tool list was supplied to generate_response; when no
\* tools are supplied, neither field is present in that call.
C22_FirstCallTools ==
    NumCalls >= 1 =>
        IF ToolListSupplied
        THEN Params(1).tools = tools /\ Params(1).tool_choice = "auto"
        ELSE Params(1).tools = Absent /\ Params(1).tool_choice = Absent

\* The first call was made with the schemas and tool_choice auto.
C22_Witness ==
    /\ tools = "[defs]"
    /\ NumCalls = 1
    /\ Params(1).tools = "[defs]"
    /\ Params(1).tool_choice = "auto"

\* The first call was made without tools and carries neither field.
C22_WitnessNoTools ==
    /\ tools = NoneValue
    /\ NumCalls = 1
    /\ Params(1).tools = Absent
    /\ Params(1).tool_choice = Absent

\* C23: every generation call of a run carries the configured model
\* identifier, temperature 0 and max_tokens 800, in every round.
C23_SamplingSettings ==
    \A i \in 1..NumCalls :
        /\ Params(i).model = ModelId
        /\ Params(i).temperature = 0
        /\ Params(i).max_tokens = 800

\* Three calls were made, two of them by the loop, all with the settings.
C23_Witness ==
    /\ NumCalls = MAX_TOOL_ROUNDS + 1
    /\ NumResponses = NumCalls
    /\ Finished
    /\ \A i \in 1..NumCalls :
          Params(i).temperature = 0 /\ Params(i).max_tokens = 800


(***************************************************************************)
(* C26                                                                     *)
(***************************************************************************)
\* The n-th response asks for tools and holds no tool_use block, and the
\* loop takes it up in a round (a tool manager was given and rounds are
\* left).
EmptyToolRound(n) ==
    /\ tool_manager
    /\ n <= MAX_TOOL_ROUNDS
    /\ n <= NumResponses
    /\ responses[n].stop_reason = "tool_use"
    /\ ToolUses(responses[n].content) = <<>>

\* C26: a response with stop_reason tool_use and no tool_use block that is
\* processed in a round has the assistant message appended and nothing
\* else: no user message, no tool execution; the round counter is still
\* incremented and the next generation call is made, so the run never ends
\* on that response.
C26_EmptyToolRound ==
    \A n \in 1..NumResponses : EmptyToolRound(n) =>
        /\ ExecsOf(n) = <<>>
        /\ (n = NumResponses /\ pc = "exec") =>
              /\ messages = Append(History(n), AssistantMessage(responses[n]))
              /\ tool_results = <<>>
              /\ current_round = n - 1
        /\ Finished => NumCalls >= n + 1
        /\ NumCalls >= n + 1 =>
              /\ History(n + 1) =
                    Append(History(n),
                           [role |-> "assistant",
                            content |-> responses[n].content])
              /\ calls[n + 1].round = calls[n].round + 1

\* Both rounds of a run were taken up by responses without a tool_use block,
\* the second holding text only, and the third call was made.
C26_Witness ==
    /\ EmptyToolRound(1)
    /\ EmptyToolRound(2)
    /\ responses[1].content = <<>>
    /\ HasText(responses[2].content)
    /\ NumCalls = 3
    /\ Len(History(3)) = 3
    /\ executed = <<>>

(***************************************************************************)
(* C27                                                                     *)
(***************************************************************************)
\* The rounds completed so far: every generation call but the first is made
\* at the end of a round.
CompletedRounds == IF NumCalls = 0 THEN 0 ELSE NumCalls - 1

\* C27 as stated: in every reachable state the round counter is at least 0
\* and below MAX_TOOL_ROUNDS, and it counts the completed rounds.
C27_AsStated ==
    /\ current_round >= 0
    /\ current_round < MAX_TOOL_ROUNDS
    /\ current_round = CompletedRounds

\* A step that completes a round: the loop body runs to its end and makes
\* the next generation call.
CompletesRound == pc = "exec" /\ Len(calls') = Len(calls) + 1

\* C27: the round counter is between 0 and MAX_TOOL_ROUNDS, the limit
\* included (it reaches the limit when the last round completes, which is
\* what ends the loop); it starts at 0, is incremented by exactly one by each
\* step that completes a round and by no other step, and is never decreased
\* or reset.
C27_RoundCounter ==
    /\ [](current_round \in 0..MAX_TOOL_ROUNDS)
    /\ [](pc = "start" => current_round = 0)
    /\ [](current_round = CompletedRounds)
    /\ [][IF CompletesRound
          THEN current_round' = current_round + 1
          ELSE current_round' = current_round]_all_vars

\* The last round has completed: the counter stands at the limit while the
\* run is still going on, and after it has returned.
C27_Witness ==
    /\ current_round = MAX_TOOL_ROUNDS
    /\ NumCalls = MAX_TOOL_ROUNDS + 1
    /\ Len(executed) >= MAX_TOOL_ROUNDS
    /\ Returned

(***************************************************************************)
(* C28                                                                     *)
(***************************************************************************)
\* The number of generation calls that have been issued and have neither
\* returned nor raised.
Outstanding ==
    NumCalls - NumResponses
        - (IF status = "raised" /\ result = "APIError" THEN 1 ELSE 0)

\* Steps of the run that issue a generation call, and steps that execute a
\* tool.
IssuesCall == Len(calls') > Len(calls)
ExecutesTool == Len(executed') > Len(executed)

\* The outcomes of the executions made for the n-th response, in order.
OutcomesOf(n) == [k \in 1..Len(ExecsOf(n)) |-> ExecsOf(n)[k].outcome]

\* The results carried by the messages the history of call n + 1 adds to the
\* history of call n.
ResultsAdded(n) ==
    LET added == SubSeq(History(n + 1), Len(History(n)) + 1,
                        Len(History(n + 1)))
        users == SelectSeq(added, LAMBDA msg : msg.role = "user") IN
    IF users = <<>>
    THEN <<>>
    ELSE [k \in 1..Len(users[1].content) |-> users[1].content[k].content]

\* C28: at most one generation call is outstanding at any time; a call is
\* issued only when none is outstanding, a step issues at most one call, a
\* tool is executed only when no call is outstanding, and no step both
\* issues a call and executes a tool; when the call that follows round n is
\* issued, every tool_use block of the n-th response has been executed and
\* the results of those executions, in order, are in the history that call
\* is given; the history of each call extends the history of the call before
\* it and begins with the user's query.
C28_OneCallAtATime ==
    /\ [](Outstanding \in {0, 1})
    /\ [](\A i \in 1..NumCalls :
             /\ History(i)[1] = [role |-> "user", content |-> Query]
             /\ i >= 2 =>
                   /\ IsPrefix(History(i - 1), History(i))
                   /\ Len(History(i)) > Len(History(i - 1))
                   /\ Len(ExecsOf(i - 1)) =
                         Len(ToolUses(responses[i - 1].content))
                   /\ ResultsAdded(i - 1) = OutcomesOf(i - 1))
    /\ [][/\ IssuesCall => /\ Len(calls') = Len(calls) + 1
                           /\ ~ExecutesTool
                           /\ Outstanding = 0
                           /\ NumResponses = NumCalls
          /\ ExecutesTool => /\ Len(executed') = Len(executed) + 1
                             /\ Outstanding = 0
                             /\ NumResponses = NumCalls
                             /\ executed'[Len(executed')].call = NumCalls]_all_vars

\* Two rounds with a tool execution each: the third call is given the
\* history of the second, extended, with both results in it.
C28_Witness ==
    /\ NumCalls = 3
    /\ NumResponses = 3
    /\ Len(ExecsOf(1)) >= 1
    /\ Len(ExecsOf(2)) = 2
    /\ ResultsAdded(1) = OutcomesOf(1)
    /\ ResultsAdded(2) = OutcomesOf(2)
    /\ Len(History(2)) = 3
    /\ Len(History(3)) = 5
    /\ status = "running"

\* The call that follows the first round is outstanding: it has been issued
\* with the result of the round's execution in its history, and it has not
\* returned.
C28_WitnessOutstanding ==
    /\ Outstanding = 1
    /\ status = "running"
    /\ NumCalls = 2 /\ NumResponses = 1
    /\ Len(ExecsOf(1)) >= 1
    /\ ResultsAdded(1) = OutcomesOf(1)

(***************************************************************************)
(* C29                                                                     *)
(***************************************************************************)
\* The texts of the text blocks of a content list.
TextsOf(content) ==
    {content[p].text : p \in {k \in 1..Len(content) : content[k].type = "text"}}

\* The message the history of call n + 1 holds right behind the history of
\* call n.
MessageOfRound(n) == History(n + 1)[Len(History(n)) + 1]

\* C29: the assistant message a round appends has the response's content
\* list as its content, every block in its place, text and tool_use blocks
\* alike, and it stays in the history of every later call; the value a run
\* returns is a text of its last response (or the empty value of a last
\* response without one) and never a text of a response that was followed
\* by a round.
C29_NarrationKeptNotReturned ==
    /\ pc = "exec" =>
          messages[Len(History(NumCalls)) + 1] =
             [role |-> "assistant", content |-> responses[NumResponses].content]
    /\ \A n \in 1..NumResponses :
          NumCalls > n =>
             /\ MessageOfRound(n).role = "assistant"
             /\ MessageOfRound(n).content = responses[n].content
             /\ \A i \in (n + 1)..NumCalls :
                   History(i)[Len(History(n)) + 1] = MessageOfRound(n)
             /\ Returned => result \notin TextsOf(responses[n].content)
    /\ Returned =>
          /\ NumResponses = NumCalls
          /\ result \in TextsOf(responses[NumResponses].content)
                           \cup {EmptyString, NoneValue}

\* The first response narrates before its tool use; the narration is in the
\* history of the second call and the run returns the second response's
\* text.
C29_Witness ==
    /\ NumCalls = 2
    /\ Returned
    /\ Len(responses[1].content) = 2
    /\ responses[1].content[1].type = "text"
    /\ responses[1].content[2].type = "tool_use"
    /\ History(2)[2].content[1].text = responses[1].content[1].text
    /\ History(2)[2].content[2].id = responses[1].content[2].id
    /\ result \in TextsOf(responses[2].content)
    /\ result /= responses[1].content[1].text

(***************************************************************************)
(* C30                                                                     *)
(***************************************************************************)
\* C30 (as stated): provided each generation call and each tool execution
\* returns or raises, the run eventually ends, and it ends by returning a
\* string or by raising, whatever stop reasons and content blocks the
\* responses carry.
C30_AsStated ==
    /\ <>Finished
    /\ [](Returned => result /= NoneValue)

\* Every run ends: provided each generation call and each tool execution
\* returns or raises, the run eventually returns a value or raises, and
\* having ended it makes no further call and executes no further tool.
C30_Terminates ==
    /\ <>Finished
    /\ [][Finished => /\ calls' = calls
                      /\ executed' = executed
                      /\ status' = status
                      /\ result' = result]_all_vars

\* The model asked for tools in every response, each with as many tool_use
\* blocks as a response holds, and the run has nevertheless returned.
C30_Witness ==
    /\ Returned
    /\ NumResponses = MAX_TOOL_ROUNDS + 1
    /\ \A n \in 1..NumResponses :
          /\ responses[n].stop_reason = "tool_use"
          /\ Len(ToolUses(responses[n].content)) = MaxBlocks
    /\ Len(executed) = MAX_TOOL_ROUNDS * MaxBlocks

(***************************************************************************)
(* Properties of the sessions                                              *)
(***************************************************************************)
\* The handler of request q has run up to its call of query.
Received(q) == qpc[q] /= "idle"

CreatedIds == {"session_" \o ToString(k) : k \in 1..session_counter}

\* The response of an answered request names the session the query ran
\* with.
AnswerNamesSession(q) == Answered(q) => http[q][1].session_id = qsession[q]

\* C24 (as stated): the handler creates a session exactly when the request
\* carries no session id; a supplied id is used as it is and no session is
\* created; the response's session_id is the id the query ran with.
C24_AsStated ==
    \A q \in Requests :
        Received(q) =>
            /\ qcreated[q] = 1 <=> qrequested[q] = NoneValue
            /\ qrequested[q] /= NoneValue =>
                  qcreated[q] = 0 /\ qsession[q] = qrequested[q]
            /\ AnswerNamesSession(q)

NoUsableId(q) == qrequested[q] \in {NoneValue, ""}

\* C24 (amended): the handler creates a session exactly when the request
\* carries no session id or an empty one, and runs the query with the new
\* session's id; a non-empty id is used as it is and no session is created;
\* in both cases the response's session_id is the id the query ran with.
C24_SessionCreation ==
    \A q \in Requests :
        Received(q) =>
            /\ qcreated[q] = (IF NoUsableId(q) THEN 1 ELSE 0)
            /\ NoUsableId(q) =>
                  qsession[q] \in CreatedIds \ {qrequested[q]}
            /\ ~NoUsableId(q) => qsession[q] = qrequested[q]
            /\ AnswerNamesSession(q)

\* Request 1 carried an empty session id and was answered under a new
\* session; request 2 carried an id and was answered under it.
C24_Witness ==
    /\ qrequested[1] = "" /\ qcreated[1] = 1
    /\ Answered(1) /\ http[1][1].session_id = "session_1"
    /\ qrequested[2] = "existing-session-456" /\ qcreated[2] = 0
    /\ Answered(2) /\ http[2][1].session_id = "existing-session-456"
    /\ session_counter = 1


\* The question of request q and the answer its query returned, as two
\* messages.
Exchange(q) ==
    <<[role |-> "user", content |-> "question " \o ToString(q)],
      [role |-> "assistant", content |-> returned[q].answer]>>

\* The query of request q returned, with session id, and the session has not
\* been cleared since.
InSession(q, id) ==
    /\ QueryReturned(q)
    /\ qsession[q] = id
    /\ id \in SessionIds
    /\ q > clears.upto[id]

RECURSIVE ExchangesAmong(_, _)
\* The exchanges of those of the requests 1..n that are in S, in the order
\* of the requests.
ExchangesAmong(S, n) ==
    IF n = 0
    THEN <<>>
    ELSE ExchangesAmong(S, n - 1)
             \o (IF n \in S THEN Exchange(n) ELSE <<>>)

\* The requests whose query returned with session id since the session was
\* last cleared.
RequestsOf(id) == {q \in Requests : InSession(q, id)}

ExchangesOf(id) == ExchangesAmong(RequestsOf(id), MaxRequests)

\* The query of request q is running.
Running(q) == qpc[q] \in {"generate", "read", "reset", "record"}

Lines(history) ==
    IF history.none
    THEN {}
    ELSE {history.lines[i] : i \in DOMAIN history.lines}

QuestionLine(r) == "User: question " \o ToString(r)

\* The requests before q whose query returned with q's session id since the
\* session was last cleared.
EarlierInSession(q) == {r \in 1..(q - 1) : InSession(r, qsession[q])}

\* C25 (as stated): after any sequence of queries over several sessions, a
\* session's history holds the exchanges of the queries made with its id
\* (since it was last cleared) and none of another session, and a later
\* query of a session is given a history with the earlier questions of that
\* session.
C25_AsStated ==
    /\ \A id \in SessionIds : sessions[id].messages = ExchangesOf(id)
    /\ \A q \in Requests :
          Running(q) =>
              \A r \in EarlierInSession(q) :
                  QuestionLine(r) \in Lines(qhistory[q])

\* What a bounded list keeps of the requests S: all of them while they are
\* no more than the bound, else as many as the bound, the latest among
\* them.
KeptOf(S) ==
    {K \in SUBSET S :
        /\ Cardinality(K) = Min({Cardinality(S), MaxHistory})
        /\ \A r \in S : (\A t \in S : t <= r) => r \in K}

\* C25 (amended): a session's history holds, in order, exchanges of the
\* queries that returned with its id since it was last cleared and nothing
\* of another session: all of them while they are no more than the bound of
\* the list, else as many as the bound, the latest among them; a later query
\* of a session is given a history whose questions are those of earlier
\* queries of that session only, all of them while they are no more than the
\* bound, else as many as the bound.
C25_SessionsIsolated ==
    /\ \A id \in SessionIds :
          \E K \in KeptOf(RequestsOf(id)) :
              sessions[id].messages = ExchangesAmong(K, MaxRequests)
    /\ \A q \in Requests :
          Running(q) =>
              \E K \in KeptOf(EarlierInSession(q)) :
                  \A r \in 1..MaxRequests :
                      QuestionLine(r) \in Lines(qhistory[q]) <=> r \in K

\* The client created two sessions; queries 1 and 3 were made in the first
\* and query 2 in the second: query 3 is running with a history that holds
\* question 1 and not question 2, and the second session holds the
\* exchange of query 2 only.
C25_Witness ==
    /\ QueryReturned(1) /\ QueryReturned(2) /\ Running(3)
    /\ session_counter = 2
    /\ qsession[1] = "session_1"
    /\ qsession[2] = "session_2"
    /\ qsession[3] = "session_1"
    /\ "User: question 1" \in Lines(qhistory[3])
    /\ "User: question 2" \notin Lines(qhistory[3])
    /\ Len(sessions["session_2"].messages) = 2
    /\ sessions["session_2"].messages[1].content = "question 2"

\* Query 1 returned in a session, the session was cleared, and query 2,
\* made with the same id, runs without a history.
C25_WitnessCleared ==
    /\ QueryReturned(1) /\ Running(2)
    /\ qsession[1] = "session_1"
    /\ qsession[2] = "session_1"
    /\ clears.upto["session_1"] = 1
    /\ clears.response = SessionCleared
    /\ qhistory[2].none

\* Three queries returned in one session, one more than the list keeps:
\* the fourth runs with a history of two of the three questions, the third
\* among them and the first not.
C25_WitnessBounded ==
    /\ QueryReturned(1) /\ QueryReturned(2) /\ QueryReturned(3)
    /\ Running(4)
    /\ \A q \in 1..4 : qsession[q] = "session_1"
    /\ clears.upto["session_1"] = 0
    /\ Len(sessions["session_1"].messages) = 2 * MaxHistory
    /\ "User: question 1" \notin Lines(qhistory[4])
    /\ "User: question 2" \in Lines(qhistory[4])
    /\ "User: question 3" \in Lines(qhistory[4])

(***************************************************************************)
(* Properties of the roles in the histories                                *)
(***************************************************************************)
\* The roles of the messages of the history passed to the i-th call.
Roles(i) == [k \in 1..Len(History(i)) |-> History(i)[k].role]

LastRole(i) == Roles(i)[Len(Roles(i))]

\* C31 as stated: every history passed to a call starts with a user message,
\* no two consecutive messages have the same role, and every history passed
\* to a call after the first ends with a user message.
C31_AsStated ==
    \A i \in 1..NumCalls :
        /\ Roles(i)[1] = "user"
        /\ \A k \in 1..(Len(Roles(i)) - 1) : Roles(i)[k] /= Roles(i)[k + 1]
        /\ i >= 2 => LastRole(i) = "user"

\* C31: every history passed to a call starts with a user message and never
\* holds two consecutive user messages; an assistant message is followed by
\* a user message exactly when it holds a tool_use block, so two consecutive
\* messages have the same role only after a round whose response held no
\* tool_use block; the history passed to a call after the first ends with a
\* user message exactly when the round before that call executed a tool.
C31_RolesAlternate ==
    \A i \in 1..NumCalls :
        /\ Roles(i)[1] = "user"
        /\ \A k \in 1..(Len(Roles(i)) - 1) :
              /\ Roles(i)[k] = "user" => Roles(i)[k + 1] = "assistant"
              /\ Roles(i)[k] = "assistant" =>
                    (Roles(i)[k + 1] = "user" <=>
                        ToolUses(History(i)[k].content) /= <<>>)
        /\ i >= 2 =>
              (LastRole(i) = "user" <=>
                  ToolUses(responses[i - 1].content) /= <<>>)

\* The first round's response held no tool_use block and the second round's
\* did: the history of the third call holds two assistant messages in a row
\* and ends with the user message of the second round.
C31_Witness ==
    /\ NumCalls = 3
    /\ Roles(2) = <<"user", "assistant">>
    /\ Roles(3) = <<"user", "assistant", "assistant", "user">>
    /\ ToolUses(responses[1].content) = <<>>
    /\ Len(executed) >= 1

\* Both rounds executed a tool: the roles alternate strictly.
C31_WitnessAlternating ==
    /\ NumCalls = 3
    /\ Roles(3) = <<"user", "assistant", "user", "assistant", "user">>

(***************************************************************************)
(* Properties of runs without a tool manager                               *)
(***************************************************************************)
\* The first response asks for tools and no tool manager was supplied.
ToolUseWithoutManager ==
    /\ ~tool_manager
    /\ NumResponses >= 1
    /\ responses[1].stop_reason = "tool_use"

\* C32 as stated: when the first response has stop_reason tool_use and no
\* tool manager was supplied, no tool is executed, no second generation call
\* is made, and the run returns the text of the first content block of that
\* response.
C32_AsStated ==
    ToolUseWithoutManager =>
        /\ executed = <<>>
        /\ NumCalls = 1
        /\ Returned
        /\ responses[1].content /= <<>>
        /\ responses[1].content[1].type = "text"
        /\ result = responses[1].content[1].text

\* The part of C32 that holds whatever the first response's content is:
\* without a tool manager no tool is executed and no second call is made.
C32_NoManagerNoExecution ==
    ~tool_manager => executed = <<>> /\ NumCalls <= 1

(***************************************************************************)
(* Properties of a round cut short by a failing tool                       *)
(***************************************************************************)
\* The k-th execution made for the n-th response raised.
RaisedAt(n, k) ==
    /\ n <= NumResponses
    /\ k <= Len(ExecsOf(n))
    /\ ExecsOf(n)[k].outcome = Raised

\* C33: when the execution of the k-th tool_use block of a response raises,
\* the k - 1 tool_use blocks before it have been executed, in order, each
\* with a result, and those executions stay on record; the blocks after it
\* are never executed; the results collected so far are not appended: the
\* history ends with the round's assistant message and no user message for
\* the round exists.
C33_PartialRound ==
    \A n \in 1..NumResponses : \A k \in 1..Len(ExecsOf(n)) :
        RaisedAt(n, k) =>
            LET asked == ToolUses(responses[n].content)
                done == ExecsOf(n) IN
            /\ Len(done) = k
            /\ k <= Len(asked)
            /\ \A j \in 1..k :
                  /\ done[j].name = asked[j].name
                  /\ done[j].input = asked[j].input
                  /\ j < k => done[j].outcome /= Raised
            /\ executed[Len(executed)] = done[k]
            /\ Len(tool_results) = k - 1
            /\ \A j \in 1..(k - 1) :
                  /\ tool_results[j].tool_use_id = asked[j].id
                  /\ tool_results[j].content = done[j].outcome
            /\ n = NumCalls
            /\ Len(messages) = Len(History(n)) + 1
            /\ messages[Len(messages)].role = "assistant"
            /\ \A m \in 1..Len(messages) :
                  messages[m].role = "user" => m <= Len(History(n))
            /\ status = "raised"

\* The second of two tool_use blocks raised in the second round: the first
\* was executed and its result collected, and the history ends with the
\* assistant message of that round.
C33_Witness ==
    /\ RaisedAt(2, 2)
    /\ Len(ToolUses(responses[2].content)) = 2
    /\ ExecsOf(2)[1].outcome /= Raised
    /\ Len(tool_results) = 1
    /\ Len(messages) = 4
    /\ messages[4].role = "assistant"

\* The first of two tool_use blocks raised: the second is never executed.
C33_WitnessFirst ==
    /\ RaisedAt(1, 1)
    /\ Len(ToolUses(responses[1].content)) = 2
    /\ Len(executed) = 1
    /\ Finished

(***************************************************************************)
(* Properties of the executions of a whole run                             *)
(***************************************************************************)
\* The number of tool_use blocks in the first n responses.
RECURSIVE ToolUsesUpTo(_)
ToolUsesUpTo(n) ==
    IF n = 0
    THEN 0
    ELSE ToolUsesUpTo(n - 1) + Len(ToolUses(responses[n].content))

\* The execution e is the call for the tool_use block b.
ExecutionOf(e, b) == e.name = b.name /\ e.input = b.input

\* C34: every execution is the call for a tool_use block of the response it
\* was made for; in a run that has returned, the executions made for each
\* response but the last are, one for one, the calls for its tool_use
\* blocks, none is made for the last (terminal) response, and the number of
\* executions is the number of tool_use blocks of the responses before the
\* last.
C34_ExecutedExactlyOnce ==
    /\ \A k \in 1..Len(executed) :
          LET n == executed[k].call
              before == Len(SelectSeq(SubSeq(executed, 1, k),
                                      LAMBDA e : e.call = n)) IN
          /\ n \in 1..NumResponses
          /\ before <= Len(ToolUses(responses[n].content))
          /\ ExecutionOf(executed[k], ToolUses(responses[n].content)[before])
    /\ Returned =>
          /\ \A n \in 1..(NumResponses - 1) :
                /\ Len(ExecsOf(n)) = Len(ToolUses(responses[n].content))
                /\ \A j \in 1..Len(ExecsOf(n)) :
                      /\ ExecutionOf(ExecsOf(n)[j],
                                     ToolUses(responses[n].content)[j])
                      /\ ExecsOf(n)[j].outcome /= Raised
          /\ ExecsOf(NumResponses) = <<>>
          /\ Len(executed) = ToolUsesUpTo(NumResponses - 1)

\* A run of one round has returned: the first response's two tool_use
\* blocks were executed once each, and the tool_use block of the terminal
\* response was not.
C34_Witness ==
    /\ Returned
    /\ NumResponses = 2
    /\ Len(ToolUses(responses[1].content)) = 2
    /\ ToolUses(responses[2].content) /= <<>>
    /\ Len(executed) = 2
    /\ executed[1].name /= executed[2].name

(***************************************************************************)
(* Properties of the tool fields of the calls                              *)
(***************************************************************************)
\* The i-th call carries a tools field whose value is a non-empty list.
CarriesToolList(i) == Params(i).tools \notin {Absent, NoneValue, "[]"}

\* C35 as stated: in every call of every run, a tool_choice field is
\* carried only together with a tools field holding a non-empty list.
C35_AsStated ==
    \A i \in 1..NumCalls : ~OmitsToolChoice(i) => CarriesToolList(i)

\* The part of C35 that holds: the first call of every run, and every call
\* of a run that was given a non-empty tool list, carries tool_choice only
\* together with that list.
C35_FirstCallAndToolRuns ==
    \A i \in 1..NumCalls :
        (i = 1 \/ ToolListSupplied) =>
            (~OmitsToolChoice(i) => CarriesToolList(i))

(***************************************************************************)
(* Properties of the loop's inputs                                         *)
(***************************************************************************)
\* The loop has been entered: generate_response has handed its api_params
\* and the first response to _execute_tool_calling_loop.
LoopEntered == NumResponses >= 1 /\ EntersLoop(responses[1], tool_manager)

\* The parameter mapping generate_response built and passed to the loop, as
\* it stands now: the loop assigns to none of its keys, and the list under
\* "messages" is the list base_messages describes.
BaseParamsNow == [calls[1].params EXCEPT !.messages = base_messages]

\* C36: from the entry into the loop on, while it runs and after it has
\* returned or raised, the message list and the parameter mapping passed in
\* as base_params have the contents they had when the first call was made:
\* the list holds the user's query alone, whatever the loop has appended to
\* its own list.
C36_InputsUnchanged ==
    LoopEntered =>
        /\ base_messages = <<[role |-> "user", content |-> Query]>>
        /\ BaseParamsNow = calls[1].params
        /\ IsPrefix(base_messages, messages)
        /\ NumCalls >= 2 => Len(History(NumCalls)) > Len(base_messages)

\* Two rounds have appended four messages to the loop's own list and the run
\* has returned; the list passed in still holds one message.
C36_Witness ==
    /\ LoopEntered
    /\ Returned
    /\ NumCalls = MAX_TOOL_ROUNDS + 1
    /\ Len(messages) = 5
    /\ Len(base_messages) = 1

\* The loop was left by an exception after it had appended to its own list.
C36_WitnessRaised ==
    /\ LoopEntered
    /\ status = "raised"
    /\ Len(messages) >= 2
    /\ Len(base_messages) = 1

=============================================================================
